---- MODULE Spec2Model ----
(***************************************************************************)
(* FunscriptVideo (FSV) container engine: the archive mutation protocol    *)
(* (create / add / add_creator / remove / rebuild), open and validate,     *)
(* modelled from src/src/fsv.rs, metadata.rs, semver.rs and file_util.rs.  *)
(*                                                                         *)
(* Representation.  A file name is the sequence of its tokens: a token is  *)
(* either the separator "." or a dot-free piece of text, so                *)
(* "scene.roll.funscript" is <<"scene", ".", "roll", ".", "funscript">>.   *)
(* str::splitn(2, '.'), format!("{}.{}.{}") and Path::with_extension are   *)
(* computed on these tokens.  A file on disk is NoFile or a record         *)
(* [entries, final]: the entries written so far and whether the zip        *)
(* central directory has been written (ZipWriter::finish).  A file that is *)
(* not final cannot be opened as an archive.                               *)
(***************************************************************************)
EXTENDS Integers, Sequences, FiniteSets, TLC

VARIABLES
    path,    \* the container path the operations are given
    fs,      \* the directory of the container: path -> NoFile or file content
    db,      \* the creator store: the set of keys that have a record
    pc,      \* position of the running operation ("idle" before the first)
    op,      \* the running (or last) operation and its arguments
    result,  \* outcome of the last finished operation
    loc,     \* locals of the running operation
    pre,     \* history: fs when the running operation started
    nops     \* number of operations that may still be started

vars == <<path, fs, db, pc, op, result, loc, pre, nops>>

-----------------------------------------------------------------------------
(* Bounds *)

MaxOps == 1

\* operations in a sequence that begins with create
MaxSeqOps == 3

-----------------------------------------------------------------------------
(* Names and paths *)

Dot == "."

NoFile == [exists |-> FALSE]

MetadataJson == <<"metadata", Dot, "json">>

\* fsv.rs:12
AXES == <<"pitch", "roll", "suckManual", "surge", "sway", "twist", "valve",
          "vib", "lube", "suck", "max">>

RECURSIVE FirstDot(_, _)
\* index of the first "." token of name at or after position i, 0 when none
FirstDot(name, i) ==
    IF i > Len(name) THEN 0
    ELSE IF name[i] = Dot THEN i
    ELSE FirstDot(name, i + 1)

RECURSIVE LastDot(_, _)
\* index of the last "." token of name at or before position i, 0 when none
LastDot(name, i) ==
    IF i < 1 THEN 0
    ELSE IF name[i] = Dot THEN i
    ELSE LastDot(name, i - 1)

\* str::splitn(2, '.') then parts.next(): the text before the first '.'
SplitStem(name) ==
    LET k == FirstDot(name, 1)
    IN  IF k = 0 THEN name ELSE SubSeq(name, 1, k - 1)

\* str::splitn(2, '.'), second parts.next().unwrap_or(default)
SplitExt(name, default) ==
    LET k == FirstDot(name, 1)
    IN  IF k = 0 THEN default ELSE SubSeq(name, k + 1, Len(name))

\* Path::with_extension(ext): the extension is the text after the last '.'
\* of the file name; a name with no '.', or whose only '.' is its first
\* character, has none and gets one appended.
WithExtension(p, ext) ==
    LET k == LastDot(p, Len(p))
    IN  IF k <= 1 THEN p \o <<Dot, ext>>
        ELSE SubSeq(p, 1, k - 1) \o <<Dot, ext>>

ContainerPaths == { <<"a", Dot, "fsv">>, <<"a", Dot, "tmp">> }

\* output_dir.join(output_dirname), the directory extract writes into
ExtractionPath == <<"out", "/", "t">>

FsPaths == ContainerPaths \cup { WithExtension(p, "tmp") : p \in ContainerPaths }
           \cup {ExtractionPath}

SeqToSet(s) == { s[i] : i \in 1..Len(s) }

RECURSIVE SelectSeqBy(_, _)
\* Vec::retain with the predicate "not in drop", on the name field
SelectSeqBy(s, drop) ==
    IF s = <<>> THEN <<>>
    ELSE IF Head(s).name \in drop THEN SelectSeqBy(Tail(s), drop)
    ELSE <<Head(s)>> \o SelectSeqBy(Tail(s), drop)

-----------------------------------------------------------------------------
(* SemanticVersion (semver.rs) and the manifest (metadata.rs) *)

Version(major, minor, patch) == [major |-> major, minor |-> minor, patch |-> patch]

\* fsv.rs:10-11
LATEST_FSV_FORMAT_VERSION == Version(1, 0, 0)
MINIMUM_FSV_FORMAT_VERSION == Version(1, 0, 0)

\* A text is the sequence of its characters.
Digits == <<"0", "1", "2", "3", "4", "5", "6", "7", "8", "9">>

IsDigit(c) == c \in SeqToSet(Digits)

DigitValue(c) == (CHOOSE i \in 1..10 : Digits[i] = c) - 1

RECURSIVE ToDecimal(_)
\* impl Display for u32: the decimal digits, no sign, no leading zero
ToDecimal(n) ==
    IF n < 10 THEN <<Digits[n + 1]>>
    ELSE ToDecimal(n \div 10) \o <<Digits[(n % 10) + 1]>>

\* u32::MAX, 4294967295, as its digits
U32MaxDigits == <<"4", "2", "9", "4", "9", "6", "7", "2", "9", "5">>

RECURSIVE StripZeros(_)
\* the digits without their leading zeros ("007" is "7", "000" is "0")
StripZeros(ds) ==
    IF Len(ds) > 1 /\ Head(ds) = "0" THEN StripZeros(Tail(ds)) ELSE ds

RECURSIVE DigitsLeq(_, _)
\* digit strings of equal length, compared as numbers
DigitsLeq(x, y) ==
    IF x = <<>> THEN TRUE
    ELSE IF Head(x) # Head(y) THEN DigitValue(Head(x)) < DigitValue(Head(y))
    ELSE DigitsLeq(Tail(x), Tail(y))

\* the checked multiply-and-add of u32::from_str does not overflow: the
\* significant digits are fewer than those of u32::MAX, or as many and no more
FitsU32(significant) ==
    \/ Len(significant) < Len(U32MaxDigits)
    \/ Len(significant) = Len(U32MaxDigits) /\ DigitsLeq(significant, U32MaxDigits)

RECURSIVE DecimalValue(_, _)
DecimalValue(ds, acc) ==
    IF ds = <<>> THEN acc ELSE DecimalValue(Tail(ds), acc * 10 + DigitValue(Head(ds)))

\* u32::from_str behind the sign: one or more decimal digits whose value fits
ParseDigits(ds) ==
    IF ds = <<>> \/ (\E i \in 1..Len(ds) : ~IsDigit(ds[i])) \/ ~FitsU32(StripZeros(ds))
    THEN [ok |-> FALSE]
    ELSE [ok |-> TRUE, n |-> DecimalValue(ds, 0)]

\* str::parse::<u32>: an optional "+", then the digits; anything else is a
\* ParseIntError
ParseU32(text) ==
    ParseDigits(IF text # <<>> /\ Head(text) = "+" THEN Tail(text) ELSE text)

RECURSIVE Split(_, _)
RECURSIVE SplitAt(_, _, _)
\* str::split(sep): the pieces between the separators, empty pieces included
Split(text, sep) ==
    IF \A i \in 1..Len(text) : text[i] # sep THEN <<text>>
    ELSE SplitAt(text, sep,
                 CHOOSE i \in 1..Len(text) :
                     text[i] = sep /\ \A j \in 1..(i - 1) : text[j] # sep)

\* the piece before the first separator, at k, and the pieces behind it
SplitAt(text, sep, k) ==
    <<SubSeq(text, 1, k - 1)>> \o Split(SubSeq(text, k + 1, Len(text)), sep)

\* a Display that writes the major and minor numbers only
VersionToString_NoPatch(v) ==
    ToDecimal(v.major) \o <<Dot>> \o ToDecimal(v.minor)

\* impl Display / Serialize for Version: format!("{}.{}.{}", major, minor, patch)
VersionToString(v) ==
    ToDecimal(v.major) \o <<Dot>> \o ToDecimal(v.minor) \o <<Dot>> \o ToDecimal(v.patch)

InvalidFormat == [ok |-> FALSE, err |-> "InvalidFormat", text |-> <<>>]
InvalidNumber(text) == [ok |-> FALSE, err |-> "InvalidNumber", text |-> text]

\* a parse that reports the last field that is no number
VersionParse_LastBadField(version_str) ==
    IF Len(Split(version_str, Dot)) # 3 THEN InvalidFormat
    ELSE IF ~ParseU32(Split(version_str, Dot)[3]).ok
    THEN InvalidNumber(Split(version_str, Dot)[3])
    ELSE IF ~ParseU32(Split(version_str, Dot)[2]).ok
    THEN InvalidNumber(Split(version_str, Dot)[2])
    ELSE IF ~ParseU32(Split(version_str, Dot)[1]).ok
    THEN InvalidNumber(Split(version_str, Dot)[1])
    ELSE [ok |-> TRUE,
          v |-> Version(ParseU32(Split(version_str, Dot)[1]).n,
                        ParseU32(Split(version_str, Dot)[2]).n,
                        ParseU32(Split(version_str, Dot)[3]).n)]

\* lines 30-34: major, minor and patch are parsed in this order and the first
\* that is no u32 is the error
VersionOfNumbers(parts, number) ==
    IF ~number[1].ok THEN InvalidNumber(parts[1])
    ELSE IF ~number[2].ok THEN InvalidNumber(parts[2])
    ELSE IF ~number[3].ok THEN InvalidNumber(parts[3])
    ELSE [ok |-> TRUE, v |-> Version(number[1].n, number[2].n, number[3].n)]

\* lines 26-28: the number of parts is looked at first
VersionOfParts(parts) ==
    IF Len(parts) # 3 THEN InvalidFormat
    ELSE VersionOfNumbers(parts, [i \in 1..3 |-> ParseU32(parts[i])])

\* Version::parse
VersionParse(version_str) == VersionOfParts(Split(version_str, Dot))

Quote == "\""

\* impl Serialize for Version: serialize_str of the Display text, which
\* serde_json writes between double quotes (digits and dots need no escape)
VersionSerialize(v) == <<Quote>> \o VersionToString(v) \o <<Quote>>

\* impl Deserialize for Version: String::deserialize, then Version::parse
VersionDeserialize(json) ==
    IF Len(json) < 2 \/ Head(json) # Quote \/ json[Len(json)] # Quote
       \/ (\E i \in 2..(Len(json) - 1) : json[i] = Quote)
    THEN [ok |-> FALSE, err |-> "NotAString", text |-> <<>>]
    ELSE VersionParse(SubSeq(json, 2, Len(json) - 1))

\* an order that looks at the major number alone
VersionCmp_MajorOnly(a, b) ==
    IF a.major # b.major THEN (IF a.major < b.major THEN -1 ELSE 1) ELSE 0

\* an order that compares the patch number before the minor number
VersionCmp_PatchFirst(a, b) ==
    IF a.major # b.major THEN (IF a.major < b.major THEN -1 ELSE 1)
    ELSE IF a.patch # b.patch THEN (IF a.patch < b.patch THEN -1 ELSE 1)
    ELSE IF a.minor # b.minor THEN (IF a.minor < b.minor THEN -1 ELSE 1)
    ELSE 0

\* impl Ord for Version
VersionCmp(a, b) ==
    IF a.major # b.major THEN (IF a.major < b.major THEN -1 ELSE 1)
    ELSE IF a.minor # b.minor THEN (IF a.minor < b.minor THEN -1 ELSE 1)
    ELSE IF a.patch # b.patch THEN (IF a.patch < b.patch THEN -1 ELSE 1)
    ELSE 0

\* extra: HashMap<String, Value>, the keys of a JSON object that are no field
\* of the struct (#[serde(flatten)]); HashMap::new() has none
NoExtra == <<>>

\* CreatorInfo::new
CreatorInfo(name, socials) == [name |-> name, socials |-> socials, extra |-> NoExtra]

WorkCreatorsMetadata(work_name, source_url, creator_info) ==
    [work_name |-> work_name, source_url |-> source_url,
     creator_info |-> creator_info, extra |-> NoExtra]

VideoFormat(name, duration, checksum) ==
    [name |-> name, description |-> "", duration |-> duration, checksum |-> checksum,
     extra |-> NoExtra]

ScriptVariant(name, duration, checksum) ==
    [name |-> name, description |-> "", additional_axes |-> <<>>,
     duration |-> duration, start_offset |-> 0, checksum |-> checksum,
     extra |-> NoExtra]

SubtitleTrack(name, checksum) ==
    [name |-> name, language |-> "", description |-> "", checksum |-> checksum,
     extra |-> NoExtra]

\* CreatorsMetadata::new
CreatorsMetadata ==
    [videos |-> <<>>, scripts |-> <<>>, subtitles |-> <<>>, extra |-> NoExtra]

\* FsvMetadata::new
NewMetadata(format_version) ==
    [format_version |-> format_version, extensions |-> <<>>, title |-> "",
     tags |-> <<>>, creators |-> CreatorsMetadata,
     video_formats |-> <<>>, script_variants |-> <<>>, subtitle_tracks |-> <<>>,
     extra |-> NoExtra]

\* Serialize of a struct with a flattened map: the JSON object has the
\* struct's fields and, beside them, the entries of extra
Flatten(struct) ==
    LET fields == DOMAIN struct \ {"extra"}
    IN  [k \in fields \cup DOMAIN struct.extra |->
            IF k \in fields THEN struct[k] ELSE struct.extra[k]]

\* a Deserialize that ignores the keys that name no field
Unflatten_KnownOnly(object, fields) ==
    [k \in fields \cup {"extra"} |-> IF k = "extra" THEN NoExtra ELSE object[k]]

\* Deserialize of a struct with a flattened map: the keys that name a field
\* fill the field, every other key of the object goes to extra
Unflatten(object, fields) ==
    [k \in fields \cup {"extra"} |->
        IF k = "extra" THEN [j \in DOMAIN object \ fields |-> object[j]]
        ELSE object[k]]

CreatorInfoFields == {"name", "socials"}
WorkCreatorsFields == {"work_name", "source_url", "creator_info"}
CreatorsFields == {"videos", "scripts", "subtitles"}
VideoFormatFields == {"name", "description", "duration", "checksum"}
ScriptVariantFields ==
    {"name", "description", "additional_axes", "duration", "start_offset", "checksum"}
SubtitleTrackFields == {"name", "language", "description", "checksum"}
FsvMetadataFields ==
    {"format_version", "extensions", "title", "tags", "creators", "video_formats",
     "script_variants", "subtitle_tracks"}

FlattenAll(list) == [i \in 1..Len(list) |-> Flatten(list[i])]

UnflattenAll(list, fields) == [i \in 1..Len(list) |-> Unflatten(list[i], fields)]

WorksToJson(list) ==
    [i \in 1..Len(list) |->
        Flatten([list[i] EXCEPT !.creator_info = Flatten(@)])]

WorksFromJson(list) ==
    [i \in 1..Len(list) |->
        [Unflatten(list[i], WorkCreatorsFields) EXCEPT
            !.creator_info = Unflatten(@, CreatorInfoFields)]]

\* serde_json::to_string_pretty(metadata): the manifest text; the version
\* is written as its "major.minor.patch" string
ToJson(m) ==
    [valid |-> TRUE,
     doc |-> Flatten([m EXCEPT
                !.format_version = VersionToString(@),
                !.creators = Flatten([@ EXCEPT !.videos = WorksToJson(@),
                                               !.scripts = WorksToJson(@),
                                               !.subtitles = WorksToJson(@)]),
                !.video_formats = FlattenAll(@),
                !.script_variants = FlattenAll(@),
                !.subtitle_tracks = FlattenAll(@)])]

\* a manifest text that is not a JSON document of the schema
Garbage == [valid |-> FALSE]

\* manifest bytes that are not UTF-8: Read::read_to_string fails on them
NotUtf8 == [valid |-> FALSE, utf8 |-> FALSE]

\* metadata_file.read_to_string(&mut metadata_json) succeeds
ReadsToString(e) == e.open = "Ok" /\ e.data # NotUtf8

\* the FsvMetadata of a JSON document whose format_version parses as pv
MetadataOfDoc(doc, pv) ==
    IF ~pv.ok THEN [ok |-> FALSE, err |-> pv.err]
    ELSE [ok |-> TRUE,
          m |-> [Unflatten(doc, FsvMetadataFields) EXCEPT
                    !.format_version = pv.v,
                    !.creators =
                        [Unflatten(@, CreatorsFields) EXCEPT
                            !.videos = WorksFromJson(@),
                            !.scripts = WorksFromJson(@),
                            !.subtitles = WorksFromJson(@)],
                    !.video_formats = UnflattenAll(@, VideoFormatFields),
                    !.script_variants = UnflattenAll(@, ScriptVariantFields),
                    !.subtitle_tracks = UnflattenAll(@, SubtitleTrackFields)]]

\* serde_json::from_str::<FsvMetadata>(text)
FromJson(text) ==
    IF ~text.valid THEN [ok |-> FALSE, err |-> "MalformedJson"]
    ELSE MetadataOfDoc(text.doc, VersionParse(text.doc.format_version))

\* an add that puts every work creator into the video list
AddCreator_VideosOnly(m, type, w) == [m EXCEPT !.creators.videos = Append(@, w)]

\* FsvMetadata::add_*_creator, by work type
AddCreator(m, type, w) ==
    CASE type = "Video"    -> [m EXCEPT !.creators.videos = Append(@, w)]
      [] type = "Script"   -> [m EXCEPT !.creators.scripts = Append(@, w)]
      [] type = "Subtitle" -> [m EXCEPT !.creators.subtitles = Append(@, w)]

\* the descriptor list of an item type
Descriptors(m, type) ==
    CASE type = "Video"    -> m.video_formats
      [] type = "Script"   -> m.script_variants
      [] type = "Subtitle" -> m.subtitle_tracks

DescriptorNames(m, type) == { d.name : d \in SeqToSet(Descriptors(m, type)) }

ItemTypes == {"Video", "Script", "Subtitle"}

AllDescriptorNames(m) == UNION { DescriptorNames(m, t) : t \in ItemTypes }

-----------------------------------------------------------------------------
(* Archives *)

\* What the archive library does when an entry is opened by name, without a
\* password: it returns the entry ("Ok"), it returns the entry but reading
\* its bytes fails ("ReadError"), or by_name returns ZipError::Io,
\* ZipError::InvalidPassword or ZipError::UnsupportedArchive.
EntryOpens == {"Ok", "ReadError", "Io", "InvalidPassword", "UnsupportedArchive"}

\* An encrypted entry opened without a password: the library refuses it with
\* one of these two errors (which one is the library's choice, not the
\* program's).
EncryptedOpens == {"InvalidPassword", "UnsupportedArchive"}

Entry(name, data) == [name |-> name, data |-> data, open |-> "Ok"]

EmptyFile == [exists |-> TRUE, entries |-> <<>>, final |-> FALSE]

EntryNames(entries) == { entries[i].name : i \in 1..Len(entries) }

\* ZipArchive::by_name: the entry of that name
ByName(entries, name) == CHOOSE e \in SeqToSet(entries) : e.name = name

\* ZipArchive::by_name(name): Ok, or the ZipError it returns
ByNameResult(entries, name) ==
    IF name \notin EntryNames(entries) THEN "FileNotFound"
    ELSE IF ByName(entries, name).open = "ReadError" THEN "Ok"
    ELSE ByName(entries, name).open

\* ZipWriter::start_file + write: a name already written is refused
\* ("Duplicate filename")
\* a writer that accepts a second entry of a name, as older archive
\* libraries did
CanStartFile_Always(file, name) == TRUE

CanStartFile(file, name) == name \notin EntryNames(file.entries)

WriteEntry(file, name, data) == [file EXCEPT !.entries = Append(@, Entry(name, data))]

\* get_file_hash: "sha256:" + digest of the bytes
get_file_hash(data) == <<"sha256", data>>

\* open_fsv
open_fsv(file) ==
    IF ~file.exists THEN [ok |-> FALSE, err |-> "Io"]
    ELSE IF ~file.final THEN [ok |-> FALSE, err |-> "Zip"]
    ELSE IF ByNameResult(file.entries, MetadataJson) = "FileNotFound"
         THEN [ok |-> FALSE, err |-> "MetadataFileNotFound"]
    ELSE IF ByNameResult(file.entries, MetadataJson) # "Ok"
         THEN [ok |-> FALSE, err |-> "Zip"]
    ELSE IF ~ReadsToString(ByName(file.entries, MetadataJson))
         THEN [ok |-> FALSE, err |-> "Io"]
    ELSE LET parsed == FromJson(ByName(file.entries, MetadataJson).data)
         IN  IF ~parsed.ok THEN [ok |-> FALSE, err |-> "SerdeJson"]
             ELSE [ok |-> TRUE, archive |-> file.entries, metadata |-> parsed.m]

Space == " "

RECURSIVE TrimStart(_)
TrimStart(name) ==
    IF name # <<>> /\ Head(name) = Space THEN TrimStart(Tail(name)) ELSE name

RECURSIVE TrimEnd(_)
TrimEnd(name) ==
    IF name # <<>> /\ name[Len(name)] = Space
    THEN TrimEnd(SubSeq(name, 1, Len(name) - 1)) ELSE name

\* str::trim
Trim(name) == TrimEnd(TrimStart(name))

Valid == [kind |-> "Valid"]
ContentIncomplete(reason, item_type) ==
    [kind |-> "ContentIncomplete", reason |-> reason, item_type |-> item_type]
MetadataInvalid(reason) == [kind |-> "MetadataInvalid", reason |-> reason]
\* MetadataInvalidReason::UnsupportedFormatVersion(Version)
UnsupportedFormatVersion(v) ==
    [kind |-> "MetadataInvalid", reason |-> "UnsupportedFormatVersion", version |-> v]

StateOk(state) == [ok |-> TRUE, state |-> state]
ErrOf(err) == [ok |-> FALSE, err |-> err]

RECURSIVE validate_item_contents(_, _, _)
\* validate_item_contents, fsv.rs:338-368 (a repeated name is only logged)
validate_item_contents(item_type, items, entries) ==
    IF items = <<>> THEN StateOk(Valid)
    ELSE LET file_name == Trim(Head(items).name)
             r == ByNameResult(entries, file_name)
         IN  IF file_name = <<>>
             THEN validate_item_contents(item_type, Tail(items), entries)
             ELSE CASE r = "Ok" ->
                         validate_item_contents(item_type, Tail(items), entries)
                    [] r = "Io" ->
                         StateOk(ContentIncomplete("UnableToReadItem", item_type))
                    [] r = "FileNotFound" ->
                         StateOk(ContentIncomplete("MissingItemFile", item_type))
                    [] r = "InvalidPassword" ->
                         StateOk(ContentIncomplete("ItemPasswordProtected", item_type))
                    [] OTHER -> ErrOf("Zip")

\* a presence check that counts descriptors with a blank name
AnyNamed_NonEmpty(items) == items # <<>>

\* a presence check that is never made
AnyNamed_Always(items) == TRUE

\* "at least one ... should be present": some descriptor has a non-blank name
AnyNamed(items) == \E i \in 1..Len(items) : Trim(items[i].name) # <<>>

\* a lookup that passes every ZipError on, FileNotFound included
ValidateOpenError_ZipAlways(zip_err) == "Zip"

\* the error validate_fsv returns when by_name("metadata.json") fails
\* (fsv.rs:239-248)
ValidateOpenError(zip_err) ==
    IF zip_err = "FileNotFound" THEN "MetadataNotFound" ELSE "Zip"

\* validate_fsv, fsv.rs:231-336
validate_fsv(file) ==
    IF ~file.exists THEN ErrOf("Io")
    ELSE IF ~file.final THEN ErrOf("Zip")
    ELSE IF ByNameResult(file.entries, MetadataJson) # "Ok"
         THEN ErrOf(ValidateOpenError(ByNameResult(file.entries, MetadataJson)))
    ELSE IF ~ReadsToString(ByName(file.entries, MetadataJson))
         THEN ErrOf("Io")
    ELSE LET parsed == FromJson(ByName(file.entries, MetadataJson).data)
         IN  IF ~parsed.ok
             THEN IF parsed.err \in {"InvalidFormat", "InvalidNumber"}
                  THEN StateOk(MetadataInvalid("InvalidFormatVersion"))
                  ELSE StateOk(MetadataInvalid("MalformedJson"))
             ELSE LET metadata == parsed.m
                      video == validate_item_contents("Video", metadata.video_formats,
                                                      file.entries)
                      script == validate_item_contents("Script", metadata.script_variants,
                                                       file.entries)
                      subtitle == validate_item_contents("Subtitle",
                                                         metadata.subtitle_tracks,
                                                         file.entries)
                  IN  IF \/ VersionCmp(metadata.format_version,
                                       LATEST_FSV_FORMAT_VERSION) > 0
                         \/ VersionCmp(metadata.format_version,
                                       MINIMUM_FSV_FORMAT_VERSION) < 0
                      THEN StateOk(UnsupportedFormatVersion(metadata.format_version))
                      ELSE IF ~AnyNamed(metadata.video_formats)
                      THEN StateOk(MetadataInvalid("MissingVideoFormat"))
                      ELSE IF ~AnyNamed(metadata.script_variants)
                      THEN StateOk(MetadataInvalid("MissingScriptVariant"))
                      ELSE IF ~video.ok \/ video.state # Valid THEN video
                      ELSE IF ~script.ok \/ script.state # Valid THEN script
                      ELSE IF ~subtitle.ok \/ subtitle.state # Valid THEN subtitle
                      ELSE StateOk(Valid)

-----------------------------------------------------------------------------
(* Inputs: item files on disk, creator keys, the creator store *)

None == [some |-> FALSE]
Some(x) == [some |-> TRUE, v |-> x]

\* the bytes of a file that is no funscript: what they are (id) and, for the
\* content already in a container, the entry they were stored for
Raw(id) == [raw |-> id, of |-> <<>>]
\* the bytes of a funscript JSON document with these action timestamps
Funscript(actions) == [actions |-> actions]

V1 == <<"a", Dot, "mp4">>
V2 == <<"b", Dot, "mp4">>
S1 == <<"scene", Dot, "funscript">>
S1Roll == <<"scene", Dot, "roll", Dot, "funscript">>
S1Twist == <<"scene", Dot, "twist", Dot, "funscript">>
S2 == <<"my", Dot, "scene", Dot, "funscript">>
S3 == <<"alt", Dot, "funscript">>
S0 == <<"empty", Dot, "funscript">>
T1 == <<"en", Dot, "srt">>
DebugTxt == <<"debug", Dot, "txt">>

\* the files that can be given to create and add: file name and bytes
ItemFiles ==
    { [name |-> V1, data |-> Raw("v1")],
      [name |-> V2, data |-> Raw("v2")],
      [name |-> S1, data |-> Funscript(<<10, 30, 20>>)],
      [name |-> S3, data |-> Funscript(<<5>>)],
      [name |-> T1, data |-> Raw("t1")],
      \* an item file that has the name of the manifest entry
      [name |-> MetadataJson, data |-> Raw("m")] }

Keys == {"k1", "ghost"}

StoredCreator == [key |-> "k1", info |-> CreatorInfo("alice", <<>>)]

\* DbClient::get_creator_info_by_key
get_creator_info_by_key(key) ==
    IF \E r \in db : r.key = key
    THEN Some((CHOOSE r \in db : r.key = key).info)
    ELSE None

\* a duration that is the timestamp of the last action
get_funscript_duration_Last(funscript) ==
    IF funscript.actions = <<>> THEN [ok |-> FALSE, err |-> "GetDuration"]
    ELSE [ok |-> TRUE, v |-> funscript.actions[Len(funscript.actions)]]

\* file_util::get_funscript_duration: the maximum action timestamp
get_funscript_duration(funscript) ==
    IF funscript.actions = <<>> THEN [ok |-> FALSE, err |-> "GetDuration"]
    ELSE [ok |-> TRUE,
          v |-> CHOOSE m \in SeqToSet(funscript.actions) :
                    \A x \in SeqToSet(funscript.actions) : x <= m]

\* serde_json::from_str::<Funscript> of a file's bytes
IsFunscriptJson(bytes) == "actions" \in DOMAIN bytes

-----------------------------------------------------------------------------
(* Initial containers *)

ManifestEntry(m) == Entry(MetadataJson, ToJson(m))

ContentEntry(name) == Entry(name, [raw |-> "stored", of |-> name])

RECURSIVE ContentEntries(_)
ContentEntries(names) ==
    IF names = <<>> THEN <<>>
    ELSE <<ContentEntry(Head(names))>> \o ContentEntries(Tail(names))

InitVideo(name) == VideoFormat(name, 1000, "c")
InitScript(name) == ScriptVariant(name, 30, "c")
InitSubtitle(name) == SubtitleTrack(name, "c")
InitWork(name) == WorkCreatorsMetadata(name, "", CreatorInfo("alice", <<>>))

\* a finalized archive: the manifest, one entry per descriptor, then extras
Container(videos, scripts, subtitles, works, extras) ==
    [exists |-> TRUE, final |-> TRUE,
     entries |->
        <<ManifestEntry(
            [NewMetadata(LATEST_FSV_FORMAT_VERSION) EXCEPT
                !.title = "t",
                !.creators.videos = [i \in 1..Len(works) |-> InitWork(works[i])],
                !.creators.scripts = [i \in 1..Len(works) |-> InitWork(works[i])],
                !.creators.subtitles = [i \in 1..Len(works) |-> InitWork(works[i])],
                !.video_formats = [i \in 1..Len(videos) |-> InitVideo(videos[i])],
                !.script_variants = [i \in 1..Len(scripts) |-> InitScript(scripts[i])],
                !.subtitle_tracks = [i \in 1..Len(subtitles) |-> InitSubtitle(subtitles[i])]])>>
        \o ContentEntries(videos \o scripts \o subtitles \o extras)]

\* the container whose manifest text has unknown keys in every object
WithUnknownKeys(file) ==
    LET doc == file.entries[1].data.doc
        more(object, where) ==
            [k \in DOMAIN object \cup {"x_vendor"} |->
                IF k = "x_vendor" THEN where ELSE object[k]]
        works(list) ==
            [i \in 1..Len(list) |->
                more([list[i] EXCEPT !.creator_info = more(@, "creator_info")], "work")]
        descriptors(list) == [i \in 1..Len(list) |-> more(list[i], "descriptor")]
    IN  [file EXCEPT !.entries[1].data.doc =
            more([doc EXCEPT
                    !.creators = more([@ EXCEPT !.videos = works(@),
                                                !.scripts = works(@),
                                                !.subtitles = works(@)], "creators"),
                    !.video_formats = descriptors(@),
                    !.script_variants = descriptors(@),
                    !.subtitle_tracks = descriptors(@)], "top")]

InitFiles ==
    { NoFile,
      WithUnknownKeys(Container(<<V1>>, <<S1, S1Roll>>, <<T1>>, <<V1>>, <<DebugTxt>>)),
      Container(<<V1>>, <<S1, S1Roll, S1Twist>>, <<T1>>, <<V1>>, <<DebugTxt>>),
      Container(<<V1>>, <<S1Roll, S2>>, <<>>, <<V1, S2>>, <<>>),
      Container(<<>>, <<>>, <<>>, <<>>, <<>>),
      \* a zip archive that is not an FSV container: no metadata.json
      [exists |-> TRUE, final |-> TRUE, entries |-> ContentEntries(<<V1, DebugTxt>>)],
      \* containers with an entry the archive library refuses, or cannot read
      [Container(<<V1>>, <<S1>>, <<>>, <<>>, <<>>)
          EXCEPT !.entries[2].open = "UnsupportedArchive"],
      [Container(<<V1>>, <<S1>>, <<>>, <<>>, <<>>)
          EXCEPT !.entries[3].open = "ReadError"],
      \* a container whose manifest text does not parse
      [exists |-> TRUE, final |-> TRUE,
       entries |-> <<Entry(MetadataJson, Garbage)>> \o ContentEntries(<<V1>>)] }

LocInit ==
    [archive |-> <<>>, metadata |-> NewMetadata(LATEST_FSV_FORMAT_VERSION),
     add_files |-> <<>>, remove_files |-> {}, i |-> 1, temp_path |-> <<>>,
     err |-> "none", creator |-> None, cont |-> "none", key |-> "",
     rollback |-> "none", verdict |-> [kind |-> "none"], display |-> "none",
     info |-> [videos |-> <<>>, scripts |-> <<>>, subtitles |-> <<>>,
               extra_files |-> <<>>],
     out |-> [kind |-> "none"], handle |-> "none",
     stdin |-> [chosen |-> FALSE, lines |-> <<>>], name |-> ""]

Init ==
    /\ path \in ContainerPaths
    /\ \E f \in InitFiles : fs = [p \in FsPaths |-> IF p = path THEN f ELSE NoFile]
    /\ db = {StoredCreator}
    /\ pc = "idle"
    /\ op = [kind |-> "none"]
    /\ result = "none"
    /\ loc = LocInit
    /\ pre = fs
    /\ nops = MaxOps

-----------------------------------------------------------------------------
(* Control *)

\* an operation starts: the caller invokes it with arguments o
Begin(o) ==
    /\ pc = "idle"
    /\ nops > 0
    /\ op' = o
    /\ pre' = fs
    /\ nops' = nops - 1
    /\ UNCHANGED path

Goto(p) == pc' = p /\ result' = "running"

\* the operation returns r to its caller
Finish(r) == pc' = "done" /\ result' = r

\* main() reports the result and the process ends: every local is gone and
\* the next invocation starts from the files and the store alone
ProcessExit ==
    /\ pc = "done"
    /\ pc' = "idle"
    /\ op' = [kind |-> "none"]
    /\ result' = "none"
    /\ loc' = LocInit
    /\ pre' = fs
    /\ UNCHANGED <<path, fs, db, nops>>

-----------------------------------------------------------------------------
(* rebuild_archive, fsv.rs:946-978 *)

\* what reading an entry through the open archive handle yields: the handle
\* is on the file at the container path; once that file has been truncated
\* the bytes at the recorded offsets are no longer the entry's.  loc.handle
\* is "open" from open_fsv until drop(archive), then "released".
Corrupt == Raw("corrupt")

ReadThroughHandle(e) == IF loc.temp_path = path THEN Corrupt ELSE e.data

\* let temp_path = archive_path.with_extension("tmp")
TempPath(archive_path) == WithExtension(archive_path, "tmp")

StartRebuild(archive, metadata, add_files, remove_files) ==
    /\ Goto("rb_create")
    /\ loc' = [LocInit EXCEPT !.archive = archive, !.metadata = metadata,
                              !.add_files = add_files, !.remove_files = remove_files,
                              !.handle = "open"]

\* std::fs::File::create(&temp_path): creates or truncates
RbCreateTemp ==
    /\ pc = "rb_create"
    /\ \/ /\ fs' = [fs EXCEPT ![TempPath(path)] = EmptyFile]
          /\ loc' = [loc EXCEPT !.temp_path = TempPath(path)]
          /\ Goto("rb_meta")
       \/ /\ Finish("Io")
          /\ UNCHANGED <<fs, loc>>
    /\ UNCHANGED <<path, db, op, pre, nops>>

\* zip_writer.start_file("metadata.json") and write_all
RbWriteMetadata ==
    /\ pc = "rb_meta"
    /\ \/ /\ fs' = [fs EXCEPT ![loc.temp_path] =
                        WriteEntry(@, MetadataJson, ToJson(loc.metadata))]
          /\ loc' = [loc EXCEPT !.i = 1]
          /\ Goto("rb_copy")
       \/ /\ Finish("Io")
          /\ UNCHANGED <<fs, loc>>
    /\ UNCHANGED <<path, db, op, pre, nops>>

\* a copy loop that also drops every entry no descriptor names
SkipOnCopy_Strip(file_name, remove_files) ==
    \/ file_name = MetadataJson
    \/ file_name \in remove_files
    \/ file_name \notin AllDescriptorNames(loc.metadata)

\* the skip test of the copy loop (fsv.rs:959)
SkipOnCopy(file_name, remove_files) ==
    file_name = MetadataJson \/ file_name \in remove_files

\* one iteration of "for i in 0..archive.len()"
RbCopyEntry ==
    /\ pc = "rb_copy"
    /\ IF loc.i > Len(loc.archive)
       THEN Goto("rb_add") /\ UNCHANGED <<fs, loc>>
       ELSE LET e == loc.archive[loc.i]
            IN  \/ /\ Finish("Io")          \* by_index or io::copy fails
                   /\ UNCHANGED <<fs, loc>>
                \/ IF e.open \notin {"Ok", "ReadError"}     \* archive.by_index(i)?
                   THEN Finish("Zip") /\ UNCHANGED <<fs, loc>>
                   ELSE IF SkipOnCopy(e.name, loc.remove_files)
                   THEN /\ loc' = [loc EXCEPT !.i = @ + 1]
                        /\ Goto("rb_copy")
                        /\ UNCHANGED fs
                   ELSE IF ~CanStartFile(fs[loc.temp_path], e.name)
                   THEN Finish("Zip") /\ UNCHANGED <<fs, loc>>
                   ELSE IF e.open = "ReadError"               \* io::copy fails
                   THEN Finish("Io") /\ UNCHANGED <<fs, loc>>
                   ELSE /\ fs' = [fs EXCEPT ![loc.temp_path] =
                                    WriteEntry(@, e.name, ReadThroughHandle(e))]
                        /\ loc' = [loc EXCEPT !.i = @ + 1]
                        /\ Goto("rb_copy")
    /\ UNCHANGED <<path, db, op, pre, nops>>

\* one iteration of "for file_path in add_files"
RbAddFile ==
    /\ pc = "rb_add"
    /\ IF loc.add_files = <<>>
       THEN Goto("rb_finish") /\ UNCHANGED <<fs, loc>>
       ELSE LET f == Head(loc.add_files)
            IN  \/ /\ Finish("Io")          \* File::open or io::copy fails
                   /\ UNCHANGED <<fs, loc>>
                \/ IF ~CanStartFile(fs[loc.temp_path], f.name)
                   THEN Finish("Zip") /\ UNCHANGED <<fs, loc>>
                   ELSE /\ fs' = [fs EXCEPT ![loc.temp_path] =
                                    WriteEntry(@, f.name, f.data)]
                        /\ loc' = [loc EXCEPT !.add_files = Tail(@)]
                        /\ Goto("rb_add")
    /\ UNCHANGED <<path, db, op, pre, nops>>

\* zip_writer.finish()?.flush()?; drop(archive)
RbFinish ==
    /\ pc = "rb_finish"
    /\ \/ /\ fs' = [fs EXCEPT ![loc.temp_path].final = TRUE]
          /\ loc' = [loc EXCEPT !.handle = "released"]
          /\ Goto("rb_rename")
       \/ /\ Finish("Io")
          /\ UNCHANGED <<fs, loc>>
    /\ UNCHANGED <<path, db, op, pre, nops>>

\* std::fs::rename(from, to): atomic replacement; renaming a file onto
\* itself changes nothing
Rename(files, from, to) ==
    IF from = to THEN files
    ELSE [files EXCEPT ![to] = files[from], ![from] = NoFile]

\* std::fs::rename(temp_path, archive_path)
RbRename ==
    /\ pc = "rb_rename"
    /\ \/ /\ fs' = Rename(fs, loc.temp_path, path)
          /\ Finish("Ok")
       \/ /\ Finish("Io")
          /\ UNCHANGED fs
    /\ UNCHANGED <<path, db, op, loc, pre, nops>>

-----------------------------------------------------------------------------
(* the validate command: validate_fsv(path), read-only *)

Validate ==
    /\ Begin([kind |-> "validate"])
    /\ LET r == validate_fsv(fs[path])
       IN  IF r.ok
           THEN Finish("Ok") /\ loc' = [LocInit EXCEPT !.verdict = r.state]
           ELSE Finish(r.err) /\ loc' = LocInit
    /\ UNCHANGED <<fs, db>>

-----------------------------------------------------------------------------
(* rebuild_fsv, fsv.rs:827-832 *)

rebuild_fsv ==
    /\ Begin([kind |-> "rebuild"])
    /\ LET o == open_fsv(fs[path])
       IN  IF ~o.ok THEN Finish(o.err) /\ UNCHANGED loc
           ELSE StartRebuild(o.archive, o.metadata, <<>>, {})
    /\ UNCHANGED <<fs, db>>

-----------------------------------------------------------------------------
(* remove_from_fsv, fsv.rs:713-805 *)

EntryTypes == {"Creator", "Video", "Script", "Subtitle"}

RemoveIds == {V1, S1, S1Roll, S2, T1, DebugTxt}

\* a Script removal that takes the identifier alone
ScriptNames_ExactOnly(entry_id) == {entry_id}

\* a Script removal that takes the whole axis family of the stem, whatever
\* the identifier
ScriptNames_WholeFamily(entry_id) ==
    {entry_id, SplitStem(entry_id) \o <<Dot, "funscript">>} \cup
    { SplitStem(entry_id) \o <<Dot, AXES[k], Dot, "funscript">> : k \in 1..Len(AXES) }

\* the names a Script removal resolves to (fsv.rs:754-763)
ScriptNames(entry_id) ==
    LET stem == SplitStem(entry_id)
        ext == SplitExt(entry_id, <<"funscript">>)
    IN  IF ext # <<"funscript">> THEN {entry_id}
        ELSE {entry_id} \cup
             { stem \o <<Dot, AXES[k], Dot>> \o ext : k \in 1..Len(AXES) }

\* the names whose descriptor is dropped by retain, per entry type
RemovedNames(entry_type, entry_id) ==
    IF entry_type = "Script" THEN ScriptNames(entry_id) ELSE {entry_id}

RECURSIVE RetainWorks(_, _)
\* Vec::retain(|creator| creator.work_name != entry_id)
RetainWorks(s, entry_id) ==
    IF s = <<>> THEN <<>>
    ELSE IF Head(s).work_name = entry_id THEN RetainWorks(Tail(s), entry_id)
    ELSE <<Head(s)>> \o RetainWorks(Tail(s), entry_id)

\* a Creator removal that goes through the video list alone
RemoveFromMetadata_VideosOnly(m, entry_type, entry_id) ==
    CASE entry_type = "Creator" ->
            [m EXCEPT !.creators.videos = RetainWorks(@, entry_id)]
      [] entry_type = "Video" ->
            [m EXCEPT !.video_formats = SelectSeqBy(@, {entry_id})]
      [] entry_type = "Script" ->
            [m EXCEPT !.script_variants = SelectSeqBy(@, ScriptNames(entry_id))]
      [] entry_type = "Subtitle" ->
            [m EXCEPT !.subtitle_tracks = SelectSeqBy(@, {entry_id})]

\* the manifest after the retain of the matching arm
RemoveFromMetadata(m, entry_type, entry_id) ==
    CASE entry_type = "Creator" ->
            [m EXCEPT !.creators.videos = RetainWorks(@, entry_id),
                      !.creators.scripts = RetainWorks(@, entry_id),
                      !.creators.subtitles = RetainWorks(@, entry_id)]
      [] entry_type = "Video" ->
            [m EXCEPT !.video_formats = SelectSeqBy(@, {entry_id})]
      [] entry_type = "Script" ->
            [m EXCEPT !.script_variants = SelectSeqBy(@, ScriptNames(entry_id))]
      [] entry_type = "Subtitle" ->
            [m EXCEPT !.subtitle_tracks = SelectSeqBy(@, {entry_id})]

\* a removal that never reports "not found"
RemoveFound_Always(m, entry_type, entry_id) == TRUE

\* "found": retain dropped at least one element
RemoveFound(m, entry_type, entry_id) == RemoveFromMetadata(m, entry_type, entry_id) # m

\* remove_files handed to rebuild_archive
RemoveFiles(entry_type, entry_id) ==
    IF entry_type = "Creator" THEN {} ELSE RemovedNames(entry_type, entry_id)

\* remove_from_fsv(path, entry_type, entry_id) up to rebuild_archive
Remove(entry_type, entry_id) ==
    /\ Begin([kind |-> "remove", entry_type |-> entry_type, entry_id |-> entry_id])
    /\ LET o == open_fsv(fs[path])
       IN  IF ~o.ok THEN Finish(o.err) /\ UNCHANGED loc
           ELSE IF ~RemoveFound(o.metadata, entry_type, entry_id)
           THEN Finish("EntryNotFound") /\ UNCHANGED loc
           ELSE StartRebuild(o.archive,
                             RemoveFromMetadata(o.metadata, entry_type, entry_id),
                             <<>>, RemoveFiles(entry_type, entry_id))
    /\ UNCHANGED <<fs, db>>

remove_from_fsv ==
    /\ pc = "idle"
    /\ \E entry_type \in EntryTypes, entry_id \in RemoveIds :
          Remove(entry_type, entry_id)

-----------------------------------------------------------------------------
(* Creator resolution, fsv.rs:1018-1082 *)

OptKeys == {None} \cup { Some(k) : k \in Keys }

\* get_creator_info_from_key, up to the point where it returns or prompts
Resolve(creator_key, interactive) ==
    IF ~creator_key.some THEN [kind |-> "done", creator |-> None]
    ELSE LET c == get_creator_info_by_key(creator_key.v)
         IN  IF c.some THEN [kind |-> "done", creator |-> c]
             ELSE IF interactive THEN [kind |-> "prompt", creator |-> None]
             ELSE [kind |-> "err", creator |-> None]

\* an error leaves the operation: create_fsv cleans up before returning it
Fail(kind, base, err) ==
    IF kind = "create"
    THEN Goto("create_rollback") /\ loc' = [base EXCEPT !.err = err]
    ELSE Finish(err) /\ loc' = base

\* what standard input holds when the first prompt appears: the lines still
\* to be read, after which comes the end of input
Streams == { <<"bob", "site">>, <<" ", "bob", "site">>, <<>> }

\* the call get_creator_info_from_key(...).await? and what follows it
ResolveThen(kind, base, creator_key, interactive, cont) ==
    \/ /\ creator_key.some            \* the store query fails
       /\ Fail(kind, base, "DbClient")
    \/ LET r == Resolve(creator_key, interactive)
       IN  CASE r.kind = "done" ->
                    /\ loc' = [base EXCEPT !.creator = r.creator]
                    /\ Goto(cont)
             [] r.kind = "prompt" ->
                    /\ \E lines \in Streams :
                          loc' = [base EXCEPT
                                     !.cont = cont, !.key = creator_key.v,
                                     !.stdin = IF @.chosen THEN @
                                               ELSE [chosen |-> TRUE, lines |-> lines]]
                    /\ Goto("prompt")
             [] r.kind = "err" -> Fail(kind, base, "CreatorInfoNotFound")

\* what DbClient::insert_creator_info leaves in the store
InsertCreator(store, key, info) == store \cup {[key |-> key, info |-> info]}

\* prompt_input, fsv.rs:1009-1015: read_line gives the next line of standard
\* input, and Ok(0) with an empty buffer at end of input; the result is
\* trimmed
prompt_input(lines) ==
    IF lines = <<>> THEN ""
    ELSE IF Head(lines) = " " THEN "" ELSE Head(lines)

\* standard input behind the line that read_line has taken
AfterLine(lines) == IF lines = <<>> THEN <<>> ELSE Tail(lines)

\* socials_input.split(',') without the empty parts (one part at most here)
Socials(socials_input) == IF socials_input = "" THEN <<>> ELSE <<socials_input>>

\* the name loop of get_creator_info_from_user(db_client, Some(key)), lines
\* 1040-1047: one prompt_input("Enter creator name: ")
get_creator_info_from_user ==
    /\ pc = "prompt"
    /\ \/ Fail(op.kind, loc, "Io")       \* stdout flush or stdin read fails
       \/ LET input == prompt_input(loc.stdin.lines)
          IN  /\ loc' = [loc EXCEPT !.stdin.lines = AfterLine(@), !.name = input]
              /\ IF input = "" THEN Goto("prompt_empty") ELSE Goto("prompt_socials")
    /\ UNCHANGED <<path, fs, db, op, pre, nops>>

\* println!("Name cannot be empty. Please try again.") and the next turn of
\* the loop
PromptNameEmpty ==
    /\ pc = "prompt_empty"
    /\ Goto("prompt")
    /\ UNCHANGED <<path, fs, db, op, loc, pre, nops>>

\* lines 1049-1079: the socials prompt, the record, the insert into the
\* store (a failure of which is only logged), Ok(creator_info)
PromptSocials ==
    /\ pc = "prompt_socials"
    /\ \/ /\ Fail(op.kind, loc, "Io")    \* stdout flush or stdin read fails
          /\ UNCHANGED db
       \/ LET creator_info ==
                  CreatorInfo(loc.name, Socials(prompt_input(loc.stdin.lines)))
          IN  /\ \E inserted \in BOOLEAN :
                    db' = IF inserted /\ loc.key # ""
                          THEN InsertCreator(db, loc.key, creator_info) ELSE db
              /\ loc' = [loc EXCEPT !.stdin.lines = AfterLine(@),
                                    !.creator = Some(creator_info)]
              /\ Goto(loc.cont)
    /\ UNCHANGED <<path, fs, op, pre, nops>>

-----------------------------------------------------------------------------
(* add_to_fsv, fsv.rs:601-675 *)

AddFile(name, data) == [name |-> name, data |-> data]

\* the duration the probe reports for a video file
ProbedDuration == 1000

\* the (item type, item file) pairs add is called with: each file as its own
\* type, and a file name already used by another type
AddChoices ==
    { [item_type |-> "Video", item |-> f] : f \in { g \in ItemFiles : g.name \in {V1, V2} } }
    \cup { [item_type |-> "Script", item |-> f] : f \in { g \in ItemFiles : g.name \in {S1, S3} } }
    \cup { [item_type |-> "Subtitle", item |-> f] : f \in { g \in ItemFiles : g.name \in {T1, V1, MetadataJson} } }

\* lines 602-606: file name, read, hash, creator resolution
Add(item_type, item, creator_key, interactive) ==
    /\ Begin([kind |-> "add", item_type |-> item_type, item |-> item,
              creator_key |-> creator_key, interactive |-> interactive])
    /\ \/ Finish("Io") /\ loc' = LocInit      \* std::fs::read fails
       \/ ResolveThen("add", LocInit, creator_key, interactive, "add_open")
    /\ UNCHANGED <<fs, db>>

add_to_fsv ==
    /\ pc = "idle"
    /\ \E a \in AddChoices, creator_key \in OptKeys, interactive \in BOOLEAN :
          Add(a.item_type, a.item, creator_key, interactive)

\* the descriptor add_to_fsv appends, per item type
NewDescriptor(item_type, filname, duration, hash) ==
    CASE item_type = "Video"    -> VideoFormat(filname, duration, hash)
      [] item_type = "Script"   -> ScriptVariant(filname, duration, hash)
      [] item_type = "Subtitle" -> SubtitleTrack(filname, hash)

\* an add that lists the new descriptor twice
AddDescriptor_Twice(m, item_type, d) ==
    CASE item_type = "Video"    -> [m EXCEPT !.video_formats = @ \o <<d, d>>]
      [] item_type = "Script"   -> [m EXCEPT !.script_variants = @ \o <<d, d>>]
      [] item_type = "Subtitle" -> [m EXCEPT !.subtitle_tracks = @ \o <<d, d>>]

AddDescriptor(m, item_type, d) ==
    CASE item_type = "Video"    -> [m EXCEPT !.video_formats = Append(@, d)]
      [] item_type = "Script"   -> [m EXCEPT !.script_variants = Append(@, d)]
      [] item_type = "Subtitle" -> [m EXCEPT !.subtitle_tracks = Append(@, d)]

\* "if let Some(creator_info) = creator_info { metadata.add_*_creator(..) }"
WithCreator(m, item_type, filname, creator) ==
    IF creator.some
    THEN AddCreator(m, item_type, WorkCreatorsMetadata(filname, "", creator.v))
    ELSE m

\* "for d in &metadata.<list> { if d.name == filname { return Ok(()) } }"
AlreadyPresent(m, item_type, filname) == filname \in DescriptorNames(m, item_type)

\* the file whose text the Script arm parses as a funscript (line 639)
ScriptSource(archive_path, item) == fs[archive_path]

\* lines 608-674: open, duplicate check, descriptor, rebuild_archive
AddOpen ==
    /\ pc = "add_open"
    /\ LET o == open_fsv(fs[path])
           filname == op.item.name
           hash == get_file_hash(op.item.data)
           added(duration) ==
               AddDescriptor(WithCreator(o.metadata, op.item_type, filname, loc.creator),
                             op.item_type,
                             NewDescriptor(op.item_type, filname, duration, hash))
           rebuild(duration) ==
               StartRebuild(o.archive, added(duration),
                            <<AddFile(filname, op.item.data)>>, {})
       IN  IF ~o.ok THEN Finish(o.err) /\ UNCHANGED loc
           ELSE IF AlreadyPresent(o.metadata, op.item_type, filname)
           THEN Finish("Ok") /\ UNCHANGED loc
           ELSE CASE op.item_type = "Video" ->
                        \/ Finish("GetDuration") /\ UNCHANGED loc  \* ffprobe fails
                        \/ rebuild(ProbedDuration)
                  [] op.item_type = "Script" ->
                        LET text == ScriptSource(path, op.item)
                        IN  IF ~IsFunscriptJson(text)
                            THEN \E e \in {"Io", "SerdeJson"} :
                                    Finish(e) /\ UNCHANGED loc
                            ELSE LET d == get_funscript_duration(text)
                                 IN  IF ~d.ok THEN Finish(d.err) /\ UNCHANGED loc
                                     ELSE rebuild(d.v)
                  [] op.item_type = "Subtitle" -> rebuild(0)
    /\ UNCHANGED <<path, fs, db, op, pre, nops>>

-----------------------------------------------------------------------------
(* add_creator_to_fsv, fsv.rs:677-695 *)

WorkNames == {V1, <<"w">>}

add_creator_to_fsv ==
    \E work_type \in ItemTypes, creator_key \in Keys, work_name \in WorkNames :
        /\ Begin([kind |-> "add_creator", work_type |-> work_type,
                  creator_key |-> creator_key, work_name |-> work_name,
                  source_url |-> "url"])
        /\ LET o == open_fsv(fs[path])
               creator_info == get_creator_info_by_key(creator_key)
           IN  IF ~o.ok THEN Finish(o.err) /\ UNCHANGED loc
               ELSE \/ Finish("DbClient") /\ UNCHANGED loc   \* the query fails
                    \/ IF ~creator_info.some
                       THEN Finish("CreatorInfoNotFound") /\ UNCHANGED loc
                       ELSE StartRebuild(o.archive,
                                AddCreator(o.metadata, work_type,
                                    WorkCreatorsMetadata(work_name, "url", creator_info.v)),
                                <<>>, {})
        /\ UNCHANGED <<fs, db>>

-----------------------------------------------------------------------------
(* create_fsv and create_inner, fsv.rs:417-510 *)

VideoItems == { f \in ItemFiles : f.name \in {V1, MetadataJson} }
ScriptItems == { f \in ItemFiles : f.name \in {S1} } \cup
               { [name |-> S0, data |-> Funscript(<<>>)] }

\* an open with create(true).truncate(true) in place of create_new(true)
CreateNew_Truncating(file) == "Created"

\* OpenOptions::new().write(true).create_new(true).open(&path): refuses an
\* existing file
CreateNew(file) == IF file.exists THEN "AlreadyExists" ELSE "Created"

\* lines 420-430
Create(video, script, video_creator_key, script_creator_key, interactive) ==
    /\ Begin([kind |-> "create", video |-> video, script |-> script,
              video_creator_key |-> video_creator_key,
              script_creator_key |-> script_creator_key,
              interactive |-> interactive])
    /\ IF CreateNew(fs[path]) = "AlreadyExists"
       THEN Finish("FsvAlreadyExists") /\ UNCHANGED <<fs, loc>>
       ELSE \/ /\ fs' = [fs EXCEPT ![path] = EmptyFile]
               /\ loc' = [LocInit EXCEPT !.metadata.title = "t"]
               /\ Goto("create_video")
            \/ Finish("Io") /\ UNCHANGED <<fs, loc>>
    /\ UNCHANGED db

create_fsv ==
    /\ pc = "idle"
    /\ \E video \in {None} \cup { Some(f) : f \in VideoItems },
          script \in {None} \cup { Some(f) : f \in ScriptItems },
          video_creator_key \in OptKeys, script_creator_key \in {None, Some("k1")},
          interactive \in BOOLEAN :
            Create(video, script, video_creator_key, script_creator_key, interactive)

\* line 457-459: the video's creator
CreateVideoCreator ==
    /\ pc = "create_video"
    /\ IF ~op.video.some
       THEN Goto("create_script") /\ UNCHANGED loc
       ELSE ResolveThen("create", loc, op.video_creator_key, op.interactive,
                        "create_video_add")
    /\ UNCHANGED <<path, fs, db, op, pre, nops>>

\* lines 460-473: probe, read, hash, creator, descriptor, add file
CreateVideoAdd ==
    /\ pc = "create_video_add"
    /\ LET f == op.video.v
       IN  \/ Fail("create", loc, "GetDuration")
           \/ Fail("create", loc, "Io")
           \/ /\ loc' = [loc EXCEPT
                    !.metadata = AddDescriptor(
                        WithCreator(@, "Video", f.name, loc.creator), "Video",
                        VideoFormat(f.name, ProbedDuration, get_file_hash(f.data))),
                    !.add_files = Append(@, AddFile(f.name, f.data))]
              /\ Goto("create_script")
    /\ UNCHANGED <<path, fs, db, op, pre, nops>>

\* lines 479-481: the script's creator
CreateScriptCreator ==
    /\ pc = "create_script"
    /\ IF ~op.script.some
       THEN Goto("ba_meta") /\ UNCHANGED loc
       ELSE ResolveThen("create", loc, op.script_creator_key, op.interactive,
                        "create_script_add")
    /\ UNCHANGED <<path, fs, db, op, pre, nops>>

\* lines 482-497: read, hash, parse, duration, creator, descriptor, add file
CreateScriptAdd ==
    /\ pc = "create_script_add"
    /\ LET f == op.script.v
       IN  \/ Fail("create", loc, "Io")
           \/ IF ~IsFunscriptJson(f.data)
              THEN Fail("create", loc, "SerdeJson")
              ELSE LET d == get_funscript_duration(f.data)
                   IN  IF ~d.ok THEN Fail("create", loc, d.err)
                       ELSE /\ loc' = [loc EXCEPT
                                  !.metadata = AddDescriptor(
                                      WithCreator(@, "Script", f.name, loc.creator),
                                      "Script",
                                      ScriptVariant(f.name, d.v, get_file_hash(f.data))),
                                  !.add_files = Append(@, AddFile(f.name, f.data))]
                            /\ Goto("ba_meta")
    /\ UNCHANGED <<path, fs, db, op, pre, nops>>

\* build_archive, fsv.rs:925-943, on the file created at the container path
BaWriteMetadata ==
    /\ pc = "ba_meta"
    /\ \/ /\ fs' = [fs EXCEPT ![path] =
                        WriteEntry(@, MetadataJson, ToJson(loc.metadata))]
          /\ Goto("ba_add")
          /\ UNCHANGED loc
       \/ Fail("create", loc, "Io") /\ UNCHANGED fs
    /\ UNCHANGED <<path, db, op, pre, nops>>

BaAddFile ==
    /\ pc = "ba_add"
    /\ IF loc.add_files = <<>>
       THEN Goto("ba_finish") /\ UNCHANGED <<fs, loc>>
       ELSE LET f == Head(loc.add_files)
            IN  \/ Fail("create", loc, "Io") /\ UNCHANGED fs
                \/ IF ~CanStartFile(fs[path], f.name)
                   THEN Fail("create", loc, "Zip") /\ UNCHANGED fs
                   ELSE /\ fs' = [fs EXCEPT ![path] = WriteEntry(@, f.name, f.data)]
                        /\ loc' = [loc EXCEPT !.add_files = Tail(@)]
                        /\ Goto("ba_add")
    /\ UNCHANGED <<path, db, op, pre, nops>>

BaFinish ==
    /\ pc = "ba_finish"
    /\ \/ /\ fs' = [fs EXCEPT ![path].final = TRUE]
          /\ Finish("Ok")
          /\ UNCHANGED loc
       \/ Fail("create", loc, "Io") /\ UNCHANGED fs
    /\ UNCHANGED <<path, db, op, pre, nops>>

\* a rollback that deletes nothing
RemoveFile_Keeps(files, p) == files

\* std::fs::remove_file(&path), when it succeeds
RemoveFile(files, p) == [files EXCEPT ![p] = NoFile]

\* lines 435-442: std::fs::remove_file(&path), a failure of which is logged,
\* then Err(err)
CreateRollback ==
    /\ pc = "create_rollback"
    /\ \/ /\ fs' = RemoveFile(fs, path)
          /\ loc' = [loc EXCEPT !.rollback = "removed"]
       \/ /\ loc' = [loc EXCEPT !.rollback = "remove_failed"]
          /\ UNCHANGED fs
    /\ Finish(loc.err)
    /\ UNCHANGED <<path, db, op, pre, nops>>

-----------------------------------------------------------------------------
(* extract_fsv, fsv.rs:30-193 *)

ExtractRefuses_NeverOnIncomplete(state, allow_content_incomplete_extract) ==
    state.kind = "MetadataInvalid"

\* the match on fsv_state (lines 32-40): extraction is refused
ExtractRefuses(state, allow_content_incomplete_extract) ==
    \/ state.kind = "MetadataInvalid"
    \/ state.kind = "ContentIncomplete" /\ ~allow_content_incomplete_extract

DEFAULT_VIDEO_EXT == <<"mp4">>
DEFAULT_SCRIPT_EXT == <<"funscript">>

OutputName_WholeName(file_name, script_file_name, default, of_video) ==
    file_name \o <<"_">> \o script_file_name

\* format!("{}_{}.{}", video_stem, script_stem, ext), lines 173-184; the
\* extension is the video's for the video file, the script's for the script
OutputName(file_name, script_file_name, default, of_video) ==
    SplitStem(file_name) \o <<"_">> \o SplitStem(script_file_name) \o <<Dot>>
        \o SplitExt(IF of_video THEN file_name ELSE script_file_name, default)

\* by_name failed with an error the loops log and skip (lines 99-112, 141-154)
SkipsPayload(zip_err) == zip_err \in {"Io", "FileNotFound", "InvalidPassword"}

OutFile(name, data) == [name |-> name, data |-> data]

RECURSIVE ScriptLoop(_, _, _, _)
\* the inner loop "for script_variant in &metadata.script_variants" for one
\* video: the std::fs::write calls it makes, in order, and the error that
\* ends it ("none" when it runs to its end)
ScriptLoop(file_name, video_data, script_variants, entries) ==
    IF script_variants = <<>> THEN [writes |-> <<>>, err |-> "none"]
    ELSE LET script_file_name == Trim(Head(script_variants).name)
             r == ByNameResult(entries, script_file_name)
             rest == ScriptLoop(file_name, video_data, Tail(script_variants), entries)
         IN  IF script_file_name = <<>> THEN rest
             ELSE IF r # "Ok"
             THEN IF SkipsPayload(r) THEN rest ELSE [writes |-> <<>>, err |-> "Zip"]
             ELSE IF ByName(entries, script_file_name).open = "ReadError" THEN rest
             ELSE [writes |->
                      << OutFile(OutputName(file_name, script_file_name,
                                            DEFAULT_VIDEO_EXT, TRUE), video_data),
                         OutFile(OutputName(file_name, script_file_name,
                                            DEFAULT_SCRIPT_EXT, FALSE),
                                 ByName(entries, script_file_name).data) >>
                      \o rest.writes,
                   err |-> rest.err]

RECURSIVE VideoLoop(_, _, _)
\* the outer loop "for video_format in &metadata.video_formats"
VideoLoop(video_formats, script_variants, entries) ==
    IF video_formats = <<>> THEN [writes |-> <<>>, err |-> "none"]
    ELSE LET file_name == Trim(Head(video_formats).name)
             r == ByNameResult(entries, file_name)
             rest == VideoLoop(Tail(video_formats), script_variants, entries)
         IN  IF file_name = <<>> THEN rest
             ELSE IF r # "Ok"
             THEN IF SkipsPayload(r) THEN rest ELSE [writes |-> <<>>, err |-> "Zip"]
             ELSE IF ByName(entries, file_name).open = "ReadError" THEN rest
             ELSE LET inner == ScriptLoop(file_name, ByName(entries, file_name).data,
                                          script_variants, entries)
                  IN  IF inner.err # "none" THEN inner
                      ELSE [writes |-> inner.writes \o rest.writes, err |-> rest.err]

\* std::fs::create_dir_all(&extraction_path)
CreateDirAll(dir) == IF dir.exists THEN dir ELSE [exists |-> TRUE, files |-> {}]

RECURSIVE WriteAll(_, _)
\* std::fs::write for each file of writes, in order: creates or replaces
WriteAll(dir, writes) ==
    IF writes = <<>> THEN dir
    ELSE WriteAll([dir EXCEPT !.files =
                        { f \in @ : f.name # Head(writes).name } \cup {Head(writes)}],
                  Tail(writes))

extract_fsv ==
    \E allow_content_incomplete_extract \in BOOLEAN :
        /\ Begin([kind |-> "extract", allow |-> allow_content_incomplete_extract])
        /\ LET fsv_state == validate_fsv(fs[path])
               o == open_fsv(fs[path])
           IN  IF ~fsv_state.ok
               THEN /\ Finish("Validation")
                    /\ loc' = [LocInit EXCEPT !.err = fsv_state.err]
                    /\ UNCHANGED fs
               ELSE IF ExtractRefuses(fsv_state.state, allow_content_incomplete_extract)
               THEN /\ Finish("InvalidState")
                    /\ loc' = [LocInit EXCEPT !.verdict = fsv_state.state]
                    /\ UNCHANGED fs
               ELSE IF ~o.ok
               THEN /\ Finish(o.err)
                    /\ loc' = [LocInit EXCEPT !.verdict = fsv_state.state]
                    /\ UNCHANGED fs
               ELSE /\ loc' = [LocInit EXCEPT !.verdict = fsv_state.state]
                    /\ \/ Finish("Io") /\ UNCHANGED fs   \* open or create_dir_all fails
                       \/ LET w == VideoLoop(o.metadata.video_formats,
                                             o.metadata.script_variants, o.archive)
                          IN  \E k \in 0..Len(w.writes) :
                                /\ fs' = [fs EXCEPT ![ExtractionPath] =
                                            WriteAll(CreateDirAll(@),
                                                     SubSeq(w.writes, 1, k))]
                                /\ IF k < Len(w.writes) THEN Finish("Io")  \* a write fails
                                   ELSE IF w.err # "none" THEN Finish(w.err)
                                   ELSE Finish("Ok")
        /\ UNCHANGED db

-----------------------------------------------------------------------------
(* get_fsv_info, fsv.rs:851-895, and the info command,
   funscripvideo-cli.rs:426-499 *)

\* (name, is_present) for each descriptor of a list: by_name(&name).is_ok()
Presence(items, entries) ==
    [i \in 1..Len(items) |->
        [name |-> items[i].name,
         is_present |-> ByNameResult(entries, items[i].name) = "Ok"]]

\* extra_files: the entries, in archive order, whose name is not in seen_files
\* (the descriptor names; "metadata.json" is never inserted)
ExtraFiles(m, entries) ==
    LET seen_files == AllDescriptorNames(m)
        unseen(e) == e.name \notin seen_files
        extras == SelectSeq(entries, unseen)
    IN  [i \in 1..Len(extras) |-> extras[i].name]

\* FsvInfo::new(title, videos, scripts, subtitles, extra_files), title aside
FsvInfo(m, entries) ==
    [videos |-> Presence(m.video_formats, entries),
     scripts |-> Presence(m.script_variants, entries),
     subtitles |-> Presence(m.subtitle_tracks, entries),
     extra_files |-> ExtraFiles(m, entries)]

\* missing_*_file of the info command
AnyMissing(list) == \E i \in 1..Len(list) : ~list[i].is_present

\* "Container State: ..." (funscripvideo-cli.rs:489-498)
DisplayState(videos, scripts, subtitles) ==
    IF videos = <<>> \/ scripts = <<>> THEN "Invalid"
    ELSE IF AnyMissing(videos) \/ AnyMissing(scripts) THEN "ContentIncomplete"
    ELSE "ContentComplete"

info ==
    /\ Begin([kind |-> "info"])
    /\ LET o == open_fsv(fs[path])
       IN  IF ~o.ok THEN Finish(o.err) /\ loc' = LocInit
           ELSE IF \E i \in 1..Len(o.archive) :        \* archive.by_index(i)?
                      o.archive[i].open \notin {"Ok", "ReadError"}
           THEN Finish("Zip") /\ loc' = LocInit
           ELSE /\ Finish("Ok")
                /\ LET fsv_info == FsvInfo(o.metadata, o.archive)
                   IN  loc' = [LocInit EXCEPT
                                  !.info = fsv_info,
                                  !.display = DisplayState(fsv_info.videos,
                                                           fsv_info.scripts,
                                                           fsv_info.subtitles)]
    /\ UNCHANGED <<fs, db>>

-----------------------------------------------------------------------------

Next ==
    \/ create_fsv
    \/ CreateVideoCreator
    \/ CreateVideoAdd
    \/ CreateScriptCreator
    \/ CreateScriptAdd
    \/ BaWriteMetadata
    \/ BaAddFile
    \/ BaFinish
    \/ CreateRollback
    \/ get_creator_info_from_user
    \/ PromptNameEmpty
    \/ PromptSocials
    \/ add_to_fsv
    \/ AddOpen
    \/ add_creator_to_fsv
    \/ Validate
    \/ rebuild_fsv
    \/ remove_from_fsv
    \/ RbCreateTemp
    \/ RbWriteMetadata
    \/ RbCopyEntry
    \/ RbAddFile
    \/ RbFinish
    \/ RbRename
    \/ extract_fsv
    \/ info
    \/ ProcessExit

Spec == Init /\ [][Next]_vars

\* the steps of create_fsv behind the creation of the file
CreateSteps ==
    \/ CreateVideoCreator
    \/ CreateVideoAdd
    \/ CreateScriptCreator
    \/ CreateScriptAdd
    \/ get_creator_info_from_user
    \/ PromptNameEmpty
    \/ PromptSocials
    \/ BaWriteMetadata
    \/ BaAddFile
    \/ BaFinish
    \/ CreateRollback

CreateNext ==
    \/ create_fsv
    \/ CreateSteps
    \/ ProcessExit

\* the create command alone, run as the sequential program it is: the next
\* step of the running operation is taken
CreateLiveSpec == Init /\ [][CreateNext]_vars /\ WF_vars(CreateSteps)

-----------------------------------------------------------------------------
(* Sequences of operations on a container that create has made: create with
   a video and a script, then add, remove and rebuild *)

\* a video file that has the name of an axis script
V3 == [name |-> S1Roll, data |-> Raw("v3")]

SeqVideos == { f \in ItemFiles : f.name = V1 } \cup {V3}

SeqScripts == { f \in ItemFiles : f.name = S1 }

\* subtitle files: en.srt, one named as an axis script, one named as the video
SeqSubtitles ==
    { f \in ItemFiles : f.name = T1 }
    \cup { [name |-> S1Roll, data |-> Raw("t2")], [name |-> V1, data |-> Raw("t3")] }

SeqRemovals ==
    { [entry_type |-> "Script", entry_id |-> S1],
      [entry_type |-> "Subtitle", entry_id |-> T1],
      [entry_type |-> "Video", entry_id |-> V1] }

SeqCreate ==
    /\ pc = "idle"
    /\ \E video \in SeqVideos, script \in SeqScripts :
          Create(Some(video), Some(script), None, None, FALSE)

SeqAdd ==
    /\ pc = "idle"
    /\ \E item \in SeqSubtitles : Add("Subtitle", item, None, FALSE)

SeqRemove ==
    /\ pc = "idle"
    /\ \E r \in SeqRemovals : Remove(r.entry_type, r.entry_id)

SeqInit ==
    /\ path = <<"a", Dot, "fsv">>
    /\ fs = [p \in FsPaths |-> NoFile]
    /\ db = {StoredCreator}
    /\ pc = "idle"
    /\ op = [kind |-> "none"]
    /\ result = "none"
    /\ loc = LocInit
    /\ pre = fs
    /\ nops = MaxSeqOps

SeqNext ==
    \/ SeqCreate
    \/ CreateVideoCreator
    \/ CreateVideoAdd
    \/ CreateScriptCreator
    \/ CreateScriptAdd
    \/ BaWriteMetadata
    \/ BaAddFile
    \/ BaFinish
    \/ CreateRollback
    \/ SeqAdd
    \/ AddOpen
    \/ SeqRemove
    \/ rebuild_fsv
    \/ RbCreateTemp
    \/ RbWriteMetadata
    \/ RbCopyEntry
    \/ RbAddFile
    \/ RbFinish
    \/ RbRename
    \/ ProcessExit

SeqSpec == SeqInit /\ [][SeqNext]_vars

-----------------------------------------------------------------------------
(* The inspecting commands (validate, extract, info) on containers with
   defects: manifests outside the supported versions, blank and repeated
   descriptor names, entries that are absent, unreadable or encrypted *)

Blank == <<Space>>
V1Mkv == <<"a", Dot, "mkv">>
\* names with an underscore: a_b.mp4 with c.funscript, and a.mp4 with
\* b_c.funscript
VUnder == <<"a", "_", "b", Dot, "mp4">>
SC == <<"c", Dot, "funscript">>
SUnder == <<"b", "_", "c", Dot, "funscript">>

VideoLists == { <<>>, <<Blank>>, <<V1>>, <<V1, V2>>, <<V1, V1>>, <<V1, V1Mkv>>,
                <<V1, VUnder>> }
ScriptLists == { <<>>, <<Blank>>, <<S1>>, <<S1, S1Roll>>, <<S1, S1>>, <<SC, SUnder>> }
SubtitleLists == { <<>>, <<T1>> }

\* the versions a manifest text can carry that Version::parse accepts
ManifestVersions == { Version(1, 0, 0), Version(2, 0, 0), Version(1, 0, 1),
                      Version(0, 9, 9) }

\* what can be wrong with the archive entry of a descriptor
Defects == {"Absent", "ReadError", "Io", "InvalidPassword", "UnsupportedArchive"}

\* defective entries: none, one, or two of different names
DefectSets ==
    LET one == { [name |-> n, open |-> d] : n \in {V1, V2, S1, T1}, d \in Defects }
        two == { {x, y} : x \in { z \in one : z.name = V1 },
                          y \in { z \in one : z.name \in {S1, T1}
                                              /\ z.open \in {"Absent", "UnsupportedArchive"} } }
    IN  {{}} \cup { {x} : x \in one } \cup two

RECURSIVE Dedup(_)
\* the names of a list, first occurrences only
Dedup(names) ==
    IF names = <<>> THEN <<>>
    ELSE LET rest == Dedup(Tail(names))
         IN  IF Head(names) \in SeqToSet(Tail(names)) THEN rest
             ELSE <<Head(names)>> \o rest

RECURSIVE DefectiveEntries(_, _)
\* one archive entry per name, but for the names defects makes absent
DefectiveEntries(names, defects) ==
    IF names = <<>> THEN <<>>
    ELSE LET n == Head(names)
             rest == DefectiveEntries(Tail(names), defects)
             ds == { d \in defects : d.name = n }
         IN  IF ds = {} THEN <<ContentEntry(n)>> \o rest
             ELSE IF (CHOOSE d \in ds : TRUE).open = "Absent" THEN rest
             ELSE <<[ContentEntry(n) EXCEPT !.open = (CHOOSE d \in ds : TRUE).open]>>
                  \o rest

\* the manifest of an inspected container
InspectManifest(version, videos, scripts, subtitles) ==
    [NewMetadata(version) EXCEPT
        !.title = "t",
        !.video_formats = [i \in 1..Len(videos) |-> InitVideo(videos[i])],
        !.script_variants = [i \in 1..Len(scripts) |-> InitScript(scripts[i])],
        !.subtitle_tracks = [i \in 1..Len(subtitles) |-> InitSubtitle(subtitles[i])]]

\* a finished archive: the manifest text, then the descriptors' entries
Archive(manifest_entry, names, defects) ==
    [exists |-> TRUE, final |-> TRUE,
     entries |-> <<manifest_entry>>
                 \o DefectiveEntries(Dedup(SelectSeq(names, LAMBDA n : Trim(n) # <<>>)),
                                     defects)]

\* manifest texts whose format_version is no "major.minor.patch" of u32
BadVersionTexts ==
    { <<"1", Dot, "0">>,
      <<"1", Dot>> \o U32MaxDigits \o <<"0", Dot, "0">>,
      <<"1", Dot, "x", Dot, "0">> }

InspectFiles ==
    { Archive(ManifestEntry(InspectManifest(ver, vs, ss, ts)), vs \o ss \o ts, ds) :
        ver \in {Version(1, 0, 0), Version(2, 0, 0)},
        vs \in VideoLists, ss \in ScriptLists, ts \in SubtitleLists, ds \in DefectSets }
    \cup
    { Archive(ManifestEntry(InspectManifest(ver, <<V1>>, <<S1>>, <<>>)), <<V1, S1>>, {}) :
        ver \in ManifestVersions }
    \cup
    { Archive(Entry(MetadataJson,
                    [ToJson(InspectManifest(Version(1, 0, 0), <<V1>>, <<S1>>, <<>>))
                        EXCEPT !.doc.format_version = t]),
              <<V1, S1>>, {}) : t \in BadVersionTexts }
    \cup
    { Archive(Entry(MetadataJson, text), <<V1, S1>>, {}) : text \in {Garbage, NotUtf8} }
    \cup
    { Archive([ManifestEntry(InspectManifest(Version(1, 0, 0), <<V1>>, <<S1>>, <<>>))
                  EXCEPT !.open = d],
              <<V1, S1>>, {}) : d \in Defects \ {"Absent"} }
    \cup
    { NoFile, EmptyFile,
      [exists |-> TRUE, final |-> TRUE, entries |-> ContentEntries(<<V1, S1>>)] }

InspectInit ==
    /\ path = <<"a", Dot, "fsv">>
    /\ \E f \in InspectFiles : fs = [p \in FsPaths |-> IF p = path THEN f ELSE NoFile]
    /\ db = {StoredCreator}
    /\ pc = "idle"
    /\ op = [kind |-> "none"]
    /\ result = "none"
    /\ loc = LocInit
    /\ pre = fs
    /\ nops = MaxOps

InspectNext ==
    \/ Validate
    \/ extract_fsv
    \/ info
    \/ ProcessExit

InspectSpec == InspectInit /\ [][InspectNext]_vars

-----------------------------------------------------------------------------
(* semver.rs on its own: Version::parse, Display, Serialize / Deserialize
   and Ord, applied to version texts and versions drawn from bounded sets *)

\* a dot-free field of a version text, with what it denotes: the number n
\* when it is the decimal writing of a non-negative integer below 2^32
NumberField(text, n) == [text |-> text, number |-> TRUE, n |-> n]
OtherField(text) == [text |-> text, number |-> FALSE, n |-> 0]

\* The largest number drawn is 2^31 - 1, the largest the checker's integers
\* hold; the texts one above u32::MAX and longer stand for the overflow.
FieldCases ==
    { NumberField(<<"1">>, 1), NumberField(<<"0", "2">>, 2),
      NumberField(<<"+", "3">>, 3),
      NumberField(<<"2", "1", "4", "7", "4", "8", "3", "6", "4", "7">>, 2147483647),
      OtherField(<<"a">>), OtherField(<<>>), OtherField(<<"-", "1">>),
      OtherField(<<Space, "1">>), OtherField(<<"1", "x">>),
      OtherField(<<"4", "2", "9", "4", "9", "6", "7", "2", "9", "6">>),
      OtherField(<<"9">> \o U32MaxDigits) }

FewFieldCases == { NumberField(<<"1">>, 1), OtherField(<<"a">>), OtherField(<<>>) }

\* the fields of the version texts: one to four of them
TextCases ==
    { <<x>> : x \in FieldCases }
    \cup { <<x, y>> : x \in FieldCases, y \in FewFieldCases }
    \cup { <<x, y, z>> : x \in FieldCases, y \in FieldCases, z \in FewFieldCases }
    \cup { <<x, y, z>> : x \in FewFieldCases, y \in FewFieldCases, z \in FieldCases }
    \cup { <<w, x, y, z>> : w \in FewFieldCases, x \in FewFieldCases,
                             y \in FewFieldCases, z \in FewFieldCases }

RECURSIVE JoinFields(_)
\* the text whose dot-separated fields are the given ones
JoinFields(fields) ==
    IF Len(fields) = 1 THEN fields[1].text
    ELSE fields[1].text \o <<Dot>> \o JoinFields(Tail(fields))

U32Samples == {0, 7, 10, 101, 2147483647}

SampleVersions ==
    { Version(a, b, c) : a \in U32Samples, b \in U32Samples, c \in U32Samples }

OrderedNumbers == {0, 1, 10}

OrderedVersions ==
    { Version(a, b, c) : a \in OrderedNumbers, b \in OrderedNumbers,
                         c \in OrderedNumbers }

\* impl PartialEq for Version
VersionEq(a, b) == a.major = b.major /\ a.minor = b.minor /\ a.patch = b.patch

\* Version::parse(version_str)
version_parse ==
    /\ pc = "idle"
    /\ \E fields \in TextCases :
        /\ Begin([kind |-> "parse", fields |-> fields])
        /\ LET parsed == VersionParse(JoinFields(fields))
           IN  /\ Finish(IF parsed.ok THEN "Ok" ELSE parsed.err)
               /\ loc' = [LocInit EXCEPT !.out = parsed]
        /\ UNCHANGED <<fs, db>>

\* version.to_string(), and Version::parse of the text
version_to_string ==
    /\ pc = "idle"
    /\ \E v \in SampleVersions :
        /\ Begin([kind |-> "to_string", v |-> v])
        /\ Finish("Ok")
        /\ loc' = [LocInit EXCEPT !.out = [text |-> VersionToString(v),
                                          parsed |-> VersionParse(VersionToString(v))]]
        /\ UNCHANGED <<fs, db>>

\* serde_json::to_string(&version), and serde_json::from_str of the text
version_serde ==
    /\ pc = "idle"
    /\ \E v \in SampleVersions :
        /\ Begin([kind |-> "serde", v |-> v])
        /\ Finish("Ok")
        /\ loc' = [LocInit EXCEPT !.out =
                      [json |-> VersionSerialize(v),
                       deserialized |-> VersionDeserialize(VersionSerialize(v))]]
        /\ UNCHANGED <<fs, db>>

\* a.cmp(&b) and a == b, on the pairs of three versions
version_cmp ==
    /\ pc = "idle"
    /\ \E a \in OrderedVersions, b \in OrderedVersions, c \in OrderedVersions :
        /\ Begin([kind |-> "cmp", a |-> a, b |-> b, c |-> c])
        /\ Finish("Ok")
        /\ loc' = [LocInit EXCEPT !.out =
                      [ab |-> VersionCmp(a, b), ba |-> VersionCmp(b, a),
                       bc |-> VersionCmp(b, c), ac |-> VersionCmp(a, c),
                       eq |-> VersionEq(a, b)]]
        /\ UNCHANGED <<fs, db>>

SemverInit ==
    /\ path = <<"a", Dot, "fsv">>
    /\ fs = [p \in FsPaths |-> NoFile]
    /\ db = {StoredCreator}
    /\ pc = "idle"
    /\ op = [kind |-> "none"]
    /\ result = "none"
    /\ loc = LocInit
    /\ pre = fs
    /\ nops = MaxOps

SemverNext ==
    \/ version_parse
    \/ version_to_string
    \/ version_serde
    \/ version_cmp
    \/ ProcessExit

SemverSpec == SemverInit /\ [][SemverNext]_vars

-----------------------------------------------------------------------------
(* Vocabulary of the properties *)

\* the operations that end in rebuild_archive
Mutating == {"add", "add_creator", "remove", "rebuild"}

Opens(file) == open_fsv(file).ok

ManifestOf(file) == open_fsv(file).metadata

NamesOf(entries) == [i \in 1..Len(entries) |-> entries[i].name]

IsContent(e) == e.name # MetadataJson

\* the entries of a file other than the manifest entry, in archive order
ContentOf(file) == SelectSeq(file.entries, IsContent)

\* a zip archive without a metadata.json entry
LacksManifest(file) ==
    file.exists /\ file.final /\ MetadataJson \notin EntryNames(file.entries)

\* the operation has returned
Returned(kind) == pc = "done" /\ op.kind = kind

\* "<stem>.funscript" with its per-axis companions "<stem>.<axis>.funscript"
AxisFamily(id) ==
    {id} \cup { SplitStem(id) \o <<Dot, AXES[k], Dot, "funscript">> : k \in 1..Len(AXES) }

IsBaseScriptId(id) == id = SplitStem(id) \o <<Dot, "funscript">>

-----------------------------------------------------------------------------
(* C1 *)

\* C1 (as claimed): when an operation that runs rebuild_archive returns an
\* error, the file at the container path is byte-for-byte what it was before
\* the operation.  Fails for a container path whose extension is "tmp".
C1_FailedRebuildLeavesOriginal ==
    (pc = "done" /\ op.kind \in Mutating /\ result # "Ok")
        => fs[path] = pre[path]

-----------------------------------------------------------------------------
(* C2 *)

\* C2 (as claimed): at every moment of add, add_creator, remove and rebuild
\* the file at the container path is either the complete archive of before
\* the operation or, once the operation has succeeded, a complete archive.
C2_ReaderSeesOldOrNew ==
    (pc # "idle" /\ op.kind \in Mutating)
        => \/ fs[path] = pre[path]
           \/ pc = "done" /\ result = "Ok" /\ fs[path].exists /\ fs[path].final

-----------------------------------------------------------------------------
(* C3 *)

\* C3: create() on a path where a file exists returns FsvAlreadyExists and
\* leaves that file, and every other file, as it was: nothing is deleted.
C3_CreateOnExistingPath ==
    (Returned("create") /\ pre[path].exists)
        => result = "FsvAlreadyExists" /\ fs = pre

C3_Witness ==
    /\ Returned("create")
    /\ pre[path].exists /\ pre[path].final
    /\ result = "FsvAlreadyExists"

-----------------------------------------------------------------------------
(* C4 *)

\* C4 (as claimed): after a failure of create() behind the creation of the
\* file, no file is at the target path and the error is the first failure.
C4_NoFileAfterFailedCreate ==
    (Returned("create") /\ loc.err # "none")
        => ~fs[path].exists /\ result = loc.err

\* C4 (amended): after such a failure create() has tried to delete the file
\* and returns the first failure; the path is empty when the deletion
\* succeeded, and still holds the partial file when the deletion failed.
C4_RollbackAfterFailedCreate ==
    (Returned("create") /\ loc.err # "none")
        => /\ result = loc.err
           /\ loc.rollback \in {"removed", "remove_failed"}
           /\ loc.rollback = "removed" => ~fs[path].exists
           /\ loc.rollback = "remove_failed" => (fs[path].exists /\ ~fs[path].final)

C4_Witness ==
    /\ Returned("create")
    /\ loc.err = "GetDuration" /\ result = "GetDuration"
    /\ loc.rollback = "removed"
    /\ ~pre[path].exists /\ ~fs[path].exists

-----------------------------------------------------------------------------
(* C5 *)

\* C5 (as claimed): add() of a readable file whose name is already a
\* descriptor of that type returns Ok and leaves the container unchanged,
\* whatever the creator key and the mode.  (Failures of the environment,
\* a read or store error, are left out.)
C5_DuplicateAddIsNoOp ==
    (/\ Returned("add")
     /\ Opens(pre[path])
     /\ AlreadyPresent(ManifestOf(pre[path]), op.item_type, op.item.name)
     /\ result \notin {"Io", "DbClient"})
        => result = "Ok" /\ fs = pre

-----------------------------------------------------------------------------
(* C6 *)

\* C6 (as claimed): add() of a readable, well-formed file whose name is not
\* a descriptor of that type returns Ok; the manifest then has one more
\* descriptor, of that name, in that type's list, the archive one more
\* entry, of that name and bytes, and everything earlier is kept.
\* (Failures of the environment and of the archive library are left out.)
C6_AddAppends ==
    (/\ Returned("add")
     /\ Opens(pre[path])
     /\ ~AlreadyPresent(ManifestOf(pre[path]), op.item_type, op.item.name)
     /\ result \notin {"Io", "DbClient", "GetDuration", "CreatorInfoNotFound", "Zip"})
        => /\ result = "Ok"
           /\ Opens(fs[path])
           /\ \A t \in ItemTypes :
                LET before == Descriptors(ManifestOf(pre[path]), t)
                    after == Descriptors(ManifestOf(fs[path]), t)
                IN  IF t = op.item_type
                    THEN /\ Len(after) = Len(before) + 1
                         /\ SubSeq(after, 1, Len(before)) = before
                         /\ after[Len(after)].name = op.item.name
                    ELSE after = before
           /\ ContentOf(fs[path]) =
                Append(ContentOf(pre[path]), Entry(op.item.name, op.item.data))

-----------------------------------------------------------------------------
(* C7 *)

\* C7: a successful remove(Script, "<stem>.funscript") leaves neither a
\* script descriptor nor a physical entry named "<stem>.funscript" or
\* "<stem>.<axis>.funscript", for every axis of AXES.
C7_RemoveScriptFamily ==
    (/\ Returned("remove") /\ result = "Ok"
     /\ op.entry_type = "Script" /\ IsBaseScriptId(op.entry_id))
        => /\ Opens(fs[path])
           /\ AxisFamily(op.entry_id)
                \cap DescriptorNames(ManifestOf(fs[path]), "Script") = {}
           /\ AxisFamily(op.entry_id) \cap EntryNames(fs[path].entries) = {}

C7_Witness ==
    /\ Returned("remove") /\ result = "Ok"
    /\ op.entry_type = "Script" /\ op.entry_id = S1
    /\ {S1, S1Roll, S1Twist} \subseteq DescriptorNames(ManifestOf(pre[path]), "Script")
    /\ {S1, S1Roll, S1Twist} \subseteq EntryNames(pre[path].entries)
    /\ {S1, S1Roll, S1Twist} \cap EntryNames(fs[path].entries) = {}

-----------------------------------------------------------------------------
(* C8 *)

\* the id matches a descriptor of the type (a creator: a work_name)
IdMatches(m, entry_type, entry_id) ==
    IF entry_type = "Creator"
    THEN \E w \in SeqToSet(m.creators.videos) \cup SeqToSet(m.creators.scripts)
                  \cup SeqToSet(m.creators.subtitles) : w.work_name = entry_id
    ELSE entry_id \in DescriptorNames(m, entry_type)

\* the id, or for a Script base id one of its per-axis companions, matches
FamilyMatches(m, entry_type, entry_id) ==
    \/ IdMatches(m, entry_type, entry_id)
    \/ /\ entry_type = "Script"
       /\ SplitExt(entry_id, <<"funscript">>) = <<"funscript">>
       /\ AxisFamily(entry_id) \cap DescriptorNames(m, "Script") # {}

-----------------------------------------------------------------------------
(* C9 *)

-----------------------------------------------------------------------------
(* C10 *)

\* C10: on an archive without a metadata.json entry validate() returns the
\* error MetadataNotFound and no FsvState, and remove, rebuild and
\* add_creator (which start with open_fsv) return MetadataFileNotFound, as
\* does add once it opens the container.
C10_NoManifestIsHardError ==
    (pc = "done" /\ LacksManifest(pre[path]))
        => /\ op.kind = "validate" =>
                (result = "MetadataNotFound" /\ loc.verdict.kind = "none")
           /\ op.kind \in {"remove", "rebuild", "add_creator"} =>
                result = "MetadataFileNotFound"
           /\ op.kind = "add" =>
                result \in {"MetadataFileNotFound", "Io", "DbClient", "CreatorInfoNotFound"}
           /\ op.kind \in Mutating \cup {"validate"} => fs = pre

C10_Witness ==
    /\ Returned("validate")
    /\ LacksManifest(pre[path])
    /\ pre[path].entries # <<>>
    /\ result = "MetadataNotFound"

-----------------------------------------------------------------------------
(* Vocabulary of the properties of validate, extract and info *)

\* a version as one number, for the small fields of ManifestVersions
Lex(v) == v.major * 10000 + v.minor * 100 + v.patch

InRange(v) ==
    /\ Lex(MINIMUM_FSV_FORMAT_VERSION) <= Lex(v)
    /\ Lex(v) <= Lex(LATEST_FSV_FORMAT_VERSION)

\* the non-blank names of a descriptor list, trimmed
NonBlank(items) == { Trim(items[i].name) : i \in 1..Len(items) } \ {<<>>}

\* the file is a zip archive with a metadata.json entry
HasManifest(file) ==
    file.exists /\ file.final /\ MetadataJson \in EntryNames(file.entries)

\* the manifest passes the version gate and both presence checks
MetadataChecksPass(m) ==
    /\ InRange(m.format_version)
    /\ NonBlank(m.video_formats) # {}
    /\ NonBlank(m.script_variants) # {}

-----------------------------------------------------------------------------
(* C11 *)

\* C11 (as claimed): validate() of a file that is a zip archive with a
\* metadata.json entry returns an FsvState, never an error.  Fails for a
\* manifest that is not UTF-8 and for an entry by_name refuses with a
\* ZipError other than Io, FileNotFound and InvalidPassword.
C11_ErrorOnlyWhenUnopenable ==
    (Returned("validate") /\ HasManifest(pre[path])) => result = "Ok"

-----------------------------------------------------------------------------
(* C12 *)

\* C12: for a manifest that parses, validate() returns
\* MetadataInvalid(UnsupportedFormatVersion(v)), v the parsed format_version,
\* exactly when v is below MINIMUM or above LATEST.
C12_VersionGate ==
    (Returned("validate") /\ Opens(pre[path]))
        => LET v == ManifestOf(pre[path]).format_version
           IN  /\ ~InRange(v) <=> (/\ result = "Ok"
                                    /\ loc.verdict = UnsupportedFormatVersion(v))
               /\ InRange(v) => ~(/\ loc.verdict.kind = "MetadataInvalid"
                                  /\ loc.verdict.reason = "UnsupportedFormatVersion")

C12_Witness ==
    /\ Returned("validate") /\ Opens(pre[path])
    /\ ManifestOf(pre[path]).format_version = Version(1, 0, 1)
    /\ loc.verdict = UnsupportedFormatVersion(Version(1, 0, 1))

-----------------------------------------------------------------------------
(* C13 *)

\* C13: for a manifest in the supported version range validate() returns
\* MetadataInvalid(MissingVideoFormat) when no video_format has a non-blank
\* name, and otherwise MetadataInvalid(MissingScriptVariant) when no
\* script_variant has one.
C13_MissingDescriptors ==
    (/\ Returned("validate") /\ Opens(pre[path])
     /\ InRange(ManifestOf(pre[path]).format_version))
        => LET m == ManifestOf(pre[path])
           IN  /\ NonBlank(m.video_formats) = {}
                    => loc.verdict = MetadataInvalid("MissingVideoFormat")
               /\ (NonBlank(m.video_formats) # {} /\ NonBlank(m.script_variants) = {})
                    => loc.verdict = MetadataInvalid("MissingScriptVariant")

C13_Witness ==
    /\ Returned("validate") /\ Opens(pre[path])
    /\ InRange(ManifestOf(pre[path]).format_version)
    /\ Len(ManifestOf(pre[path]).video_formats) = 1
    /\ NonBlank(ManifestOf(pre[path]).video_formats) = {}
    /\ NonBlank(ManifestOf(pre[path]).script_variants) # {}
    /\ loc.verdict = MetadataInvalid("MissingVideoFormat")

-----------------------------------------------------------------------------
(* C14 *)

\* two descriptors of the list have the same non-blank name
HasDuplicate(items) ==
    \E i, j \in 1..Len(items) :
        i < j /\ Trim(items[i].name) # <<>> /\ Trim(items[i].name) = Trim(items[j].name)

\* every non-blank name of the list has an entry by_name returns
AllOpen(items, entries) ==
    \A n \in NonBlank(items) : ByNameResult(entries, n) = "Ok"

\* C14 (as claimed): validate() of a manifest that passes the metadata
\* checks and has two video_formats of the same non-blank name, their entry
\* present, returns ContentIncomplete(DuplicateItemEntry(Video)).  The code
\* only logs the repeated name.
C14_DuplicateVideoIsReported ==
    (/\ Returned("validate") /\ Opens(pre[path])
     /\ MetadataChecksPass(ManifestOf(pre[path]))
     /\ HasDuplicate(ManifestOf(pre[path]).video_formats)
     /\ AllOpen(ManifestOf(pre[path]).video_formats, pre[path].entries))
        => /\ result = "Ok"
           /\ loc.verdict = ContentIncomplete("DuplicateItemEntry", "Video")

-----------------------------------------------------------------------------
(* C15 *)

\* some non-blank name of the list has no entry by_name returns
ContentProblem(items, entries) == ~AllOpen(items, entries)

\* the first check of the sequence that fails, "none" when none does
FirstProblem(m, entries) ==
    IF ~InRange(m.format_version) THEN "format_version"
    ELSE IF NonBlank(m.video_formats) = {} THEN "video_format"
    ELSE IF NonBlank(m.script_variants) = {} THEN "script_variant"
    ELSE IF ContentProblem(m.video_formats, entries) THEN "Video"
    ELSE IF ContentProblem(m.script_variants, entries) THEN "Script"
    ELSE IF ContentProblem(m.subtitle_tracks, entries) THEN "Subtitle"
    ELSE "none"

\* C15: validate() of a manifest that parses stops at the first check that
\* fails, in the order version gate, video format present, script variant
\* present, video entries, script entries, subtitle entries: what it returns
\* is that check's outcome, whatever later checks would find, and it returns
\* Valid exactly when no check fails.
C15_FailFast ==
    (Returned("validate") /\ Opens(pre[path]))
        => LET m == ManifestOf(pre[path])
               first == FirstProblem(m, pre[path].entries)
           IN  /\ first = "format_version"
                    => loc.verdict = UnsupportedFormatVersion(m.format_version)
               /\ first = "video_format"
                    => loc.verdict = MetadataInvalid("MissingVideoFormat")
               /\ first = "script_variant"
                    => loc.verdict = MetadataInvalid("MissingScriptVariant")
               /\ first \in ItemTypes
                    => IF result = "Ok"
                       THEN /\ loc.verdict.kind = "ContentIncomplete"
                            /\ loc.verdict.item_type = first
                       ELSE result = "Zip" /\ loc.verdict.kind = "none"
               /\ first = "none" <=> (result = "Ok" /\ loc.verdict = Valid)

C15_Witness ==
    /\ Returned("validate") /\ Opens(pre[path])
    /\ FirstProblem(ManifestOf(pre[path]), pre[path].entries) = "Video"
    /\ ContentProblem(ManifestOf(pre[path]).script_variants, pre[path].entries)
    /\ loc.verdict = ContentIncomplete("MissingItemFile", "Video")

-----------------------------------------------------------------------------
(* C16 *)

\* what by_name returns for the first non-blank descriptor of the list whose
\* entry it does not return
FirstRefusal(items, entries) ==
    LET bad == { i \in 1..Len(items) :
                    /\ Trim(items[i].name) # <<>>
                    /\ ByNameResult(entries, Trim(items[i].name)) # "Ok" }
        i0 == CHOOSE i \in bad : \A j \in bad : i <= j
    IN  ByNameResult(entries, Trim(items[i0].name))

\* the reason the claim gives for an absent, unreadable or encrypted entry
ClaimedReason(refusal) ==
    CASE refusal = "FileNotFound" -> "MissingItemFile"
      [] refusal = "Io" -> "UnableToReadItem"
      [] refusal \in EncryptedOpens -> "ItemPasswordProtected"

\* C16 (as claimed): for a manifest that passes the metadata checks,
\* validate() returns ContentIncomplete(MissingItemFile(T)) for an absent
\* entry, UnableToReadItem(T) for an unreadable one and
\* ItemPasswordProtected(T) for an encrypted one, T the category of the first
\* such descriptor.  Fails for an encrypted entry that the archive library
\* refuses with UnsupportedArchive.
C16_ContentVerdicts ==
    (/\ Returned("validate") /\ Opens(pre[path])
     /\ FirstProblem(ManifestOf(pre[path]), pre[path].entries) \in ItemTypes)
        => LET m == ManifestOf(pre[path])
               T == FirstProblem(m, pre[path].entries)
           IN  /\ result = "Ok"
               /\ loc.verdict =
                    ContentIncomplete(
                        ClaimedReason(FirstRefusal(Descriptors(m, T), pre[path].entries)),
                        T)

-----------------------------------------------------------------------------
(* C17 *)

\* C17: extract() returns InvalidState and writes nothing when validate()
\* yields MetadataInvalid, whatever allowIncomplete is, and when it yields
\* ContentIncomplete with allowIncomplete false; it writes output, or
\* returns success, only on Valid or on ContentIncomplete with
\* allowIncomplete true.
C17_ExtractGate ==
    Returned("extract")
        => LET r == validate_fsv(pre[path])
               refused == /\ r.ok
                          /\ \/ r.state.kind = "MetadataInvalid"
                             \/ r.state.kind = "ContentIncomplete" /\ ~op.allow
               allowed == /\ r.ok
                          /\ \/ r.state = Valid
                             \/ r.state.kind = "ContentIncomplete" /\ op.allow
           IN  /\ refused => (result = "InvalidState" /\ loc.verdict = r.state /\ fs = pre)
               /\ (fs # pre \/ result = "Ok") => allowed

C17_Witness ==
    /\ Returned("extract") /\ op.allow
    /\ validate_fsv(pre[path]).ok
    /\ validate_fsv(pre[path]).state.kind = "MetadataInvalid"
    /\ result = "InvalidState"
    /\ ~fs[ExtractionPath].exists

-----------------------------------------------------------------------------
(* C18 *)

\* the entry of every non-blank name of the list is present and readable
AllReadable(items, entries) ==
    \A n \in NonBlank(items) :
        n \in EntryNames(entries) /\ ByName(entries, n).open = "Ok"

\* "{stem(V)}_{stem(S)}.{ext}", stem and ext split at the first '.'
PairName(v, s, of) ==
    SplitStem(v) \o <<"_">> \o SplitStem(s) \o <<Dot>> \o SplitExt(of, <<>>)

\* the output pair of video v and script s: two files, name and bytes
OutputPair(v, s, entries) ==
    [video |-> OutFile(PairName(v, s, v), ByName(entries, v).data),
     script |-> OutFile(PairName(v, s, s), ByName(entries, s).data)]

\* the files of a set of output pairs
FilesOf(pairs) == UNION { {q.video, q.script} : q \in pairs }

\* C18 (as claimed): a successful extract() of a container whose n named
\* video formats and m named script variants (names distinct) are all
\* present and readable writes n x m output pairs and nothing else: for
\* video V and script S the files {stem(V)}_{stem(S)}.{ext(V)} with V's
\* bytes and {stem(V)}_{stem(S)}.{ext(S)} with S's bytes.  Fails when two
\* pairings have the same output name (C38).
C18_ExtractPairs ==
    (/\ Returned("extract") /\ result = "Ok" /\ Opens(pre[path])
     /\ ~HasDuplicate(ManifestOf(pre[path]).video_formats)
     /\ ~HasDuplicate(ManifestOf(pre[path]).script_variants)
     /\ AllReadable(ManifestOf(pre[path]).video_formats, pre[path].entries)
     /\ AllReadable(ManifestOf(pre[path]).script_variants, pre[path].entries))
        => LET V == NonBlank(ManifestOf(pre[path]).video_formats)
               S == NonBlank(ManifestOf(pre[path]).script_variants)
               pairs == { OutputPair(v, s, pre[path].entries) : v \in V, s \in S }
           IN  /\ Cardinality(pairs) = Cardinality(V) * Cardinality(S)
               /\ fs[ExtractionPath].exists
               /\ fs[ExtractionPath].files = FilesOf(pairs)

C18_Witness ==
    /\ Returned("extract") /\ result = "Ok" /\ Opens(pre[path])
    /\ NonBlank(ManifestOf(pre[path]).video_formats) = {V1, V2}
    /\ NonBlank(ManifestOf(pre[path]).script_variants) = {S1, S1Roll}
    /\ AllReadable(ManifestOf(pre[path]).video_formats, pre[path].entries)
    /\ AllReadable(ManifestOf(pre[path]).script_variants, pre[path].entries)
    /\ OutFile(<<"b", "_", "scene", Dot, "roll", Dot, "funscript">>,
               ByName(pre[path].entries, S1Roll).data) \in fs[ExtractionPath].files
    /\ OutFile(<<"b", "_", "scene", Dot, "mp4">>,
               ByName(pre[path].entries, V2).data) \in fs[ExtractionPath].files

-----------------------------------------------------------------------------
(* C19 *)

\* the non-blank names of the list whose entry is present and readable
Usable(items, entries) ==
    { n \in NonBlank(items) : n \in EntryNames(entries) /\ ByName(entries, n).open = "Ok" }

\* C19 (as claimed): extract() with allowIncomplete of a container that
\* passes the metadata checks skips the payloads that are missing,
\* unreadable or password-protected and returns success, having written
\* exactly the pairs of the usable videos and scripts.  (A failing write of
\* an output file is left out.)  Fails for an encrypted entry that the
\* archive library refuses with UnsupportedArchive.
C19_ExtractSkipsBadPayloads ==
    (/\ Returned("extract") /\ op.allow /\ Opens(pre[path])
     /\ MetadataChecksPass(ManifestOf(pre[path]))
     /\ result # "Io")
        => LET m == ManifestOf(pre[path])
               pairs == { OutputPair(v, s, pre[path].entries) :
                            v \in Usable(m.video_formats, pre[path].entries),
                            s \in Usable(m.script_variants, pre[path].entries) }
           IN  /\ result = "Ok"
               /\ fs[ExtractionPath].exists
               /\ fs[ExtractionPath].files = FilesOf(pairs)

-----------------------------------------------------------------------------
(* C20 *)

\* some descriptor of the list names an entry the archive does not have
NamesAbsentEntry(items, entries) ==
    \E i \in 1..Len(items) : items[i].name \notin EntryNames(entries)

\* C20 (as claimed): the state info displays is Invalid when the manifest
\* has no video descriptor or no script descriptor, ContentIncomplete when a
\* video, script or subtitle descriptor names an entry absent from the
\* archive, and ContentComplete otherwise.  The code leaves the subtitles
\* out of the state.
C20_InfoDisplayState ==
    (Returned("info") /\ result = "Ok" /\ Opens(pre[path]))
        => LET m == ManifestOf(pre[path])
               entries == pre[path].entries
           IN  loc.display =
                 IF m.video_formats = <<>> \/ m.script_variants = <<>> THEN "Invalid"
                 ELSE IF \/ NamesAbsentEntry(m.video_formats, entries)
                         \/ NamesAbsentEntry(m.script_variants, entries)
                         \/ NamesAbsentEntry(m.subtitle_tracks, entries)
                 THEN "ContentIncomplete"
                 ELSE "ContentComplete"

-----------------------------------------------------------------------------
(* C21 *)

\* the entries of the archive that no descriptor names and that are not the
\* manifest entry, in archive order
Unreferenced(m, entries) ==
    LET free(e) == e.name \notin AllDescriptorNames(m) /\ e.name # MetadataJson
        es == SelectSeq(entries, free)
    IN  [i \in 1..Len(es) |-> es[i].name]

\* each descriptor's name with whether the archive has an entry of that name
Listed(items, entries) ==
    [i \in 1..Len(items) |->
        [name |-> items[i].name, is_present |-> items[i].name \in EntryNames(entries)]]

\* C21: when info succeeds it reports, per category, every descriptor's name
\* with whether an entry of that name is present, and lists as extra exactly
\* the entries that no descriptor names and that are not metadata.json.
C21_InfoListing ==
    (Returned("info") /\ result = "Ok") =>
        LET m == ManifestOf(fs[path])
            entries == fs[path].entries
        IN  /\ loc.info.videos = Listed(m.video_formats, entries)
            /\ loc.info.scripts = Listed(m.script_variants, entries)
            /\ loc.info.subtitles = Listed(m.subtitle_tracks, entries)
            /\ loc.info.extra_files = Unreferenced(m, entries)

-----------------------------------------------------------------------------
(* C22 *)

\* C22: for every Version v, Version::parse(v.to_string()) is v, and
\* deserializing the JSON string that serializing v produces gives v back.
C22_VersionRoundTrip ==
    /\ Returned("to_string") =>
            (loc.out.parsed.ok /\ loc.out.parsed.v = op.v)
    /\ Returned("serde") =>
            (loc.out.deserialized.ok /\ loc.out.deserialized.v = op.v)

\* a version of several digits and a zero has gone through JSON and back
C22_Witness ==
    /\ Returned("serde")
    /\ op.v = Version(101, 0, 2147483647)
    /\ loc.out.json = <<Quote, "1", "0", "1", Dot, "0", Dot,
                         "2", "1", "4", "7", "4", "8", "3", "6", "4", "7", Quote>>
    /\ loc.out.deserialized.v = op.v

-----------------------------------------------------------------------------
(* C23 *)

\* the fields of a text that are no non-negative integer below 2^32
BadFields(fields) == { i \in 1..Len(fields) : ~fields[i].number }

FirstBadField(fields) ==
    fields[CHOOSE i \in BadFields(fields) : \A j \in BadFields(fields) : i <= j]

\* C23: Version::parse fails with InvalidFormat whenever the text has not
\* exactly three dot-separated fields, whatever the fields are; otherwise it
\* fails with InvalidNumber carrying the first field (major, minor, patch)
\* that is no non-negative integer fitting in 32 bits, and succeeds with the
\* three numbers when there is none.
C23_ParseErrors ==
    Returned("parse") =>
        IF Len(op.fields) # 3 THEN loc.out = InvalidFormat
        ELSE IF BadFields(op.fields) # {}
        THEN loc.out = InvalidNumber(FirstBadField(op.fields).text)
        ELSE /\ loc.out.ok
             /\ loc.out.v = Version(op.fields[1].n, op.fields[2].n, op.fields[3].n)

\* "1.a.3"-like: of two bad fields the first is the one reported
C23_Witness ==
    /\ Returned("parse")
    /\ Len(op.fields) = 3
    /\ Cardinality(BadFields(op.fields)) = 2
    /\ op.fields[1].number
    /\ op.fields[2].text = <<"a">>
    /\ loc.out = InvalidNumber(<<"a">>)

-----------------------------------------------------------------------------
(* C24 *)

\* (major, minor, patch) of a precedes that of b in the lexicographic order
LexLess(a, b) ==
    \/ a.major < b.major
    \/ a.major = b.major /\ a.minor < b.minor
    \/ a.major = b.major /\ a.minor = b.minor /\ a.patch < b.patch

\* C24: cmp is the lexicographic order on (major, minor, patch): Less
\* exactly when a precedes b, total, antisymmetric, transitive, and Equal
\* exactly when a == b.
C24_VersionOrder ==
    Returned("cmp") =>
        /\ (loc.out.ab = -1) <=> LexLess(op.a, op.b)
        /\ (loc.out.ab = 1) <=> LexLess(op.b, op.a)
        /\ loc.out.ab \in {-1, 0, 1}
        /\ loc.out.ba = -loc.out.ab
        /\ (loc.out.ab <= 0 /\ loc.out.ba <= 0) => op.a = op.b
        /\ (loc.out.ab <= 0 /\ loc.out.bc <= 0) => loc.out.ac <= 0
        /\ (loc.out.ab = 0) <=> loc.out.eq
        /\ loc.out.eq <=> (op.a = op.b)

\* a chain a < b < c decided by the patch, the minor and the major number
C24_Witness ==
    /\ Returned("cmp")
    /\ op.a = Version(1, 0, 10) /\ op.b = Version(1, 1, 0) /\ op.c = Version(10, 0, 0)
    /\ loc.out.ab = -1 /\ loc.out.bc = -1 /\ loc.out.ac = -1

-----------------------------------------------------------------------------
(* C25 *)

\* the manifest text of a container, as the JSON document it is
DocOf(file) == ByName(file.entries, MetadataJson).data.doc

\* the keys of a JSON object that the schema does not name, with their values
UnknownOf(object, fields) == [k \in DOMAIN object \ fields |-> object[k]]

\* the unknown keys of the work-creator records and of their creator_info
\* objects, each with the record it belongs to
WorkExtras(doc) ==
    UNION { { [type |-> t, id |-> <<w.work_name, w.creator_info.name>>,
               own |-> UnknownOf(w, WorkCreatorsFields),
               info |-> UnknownOf(w.creator_info, CreatorInfoFields)] :
              w \in SeqToSet(CASE t = "Video" -> doc.creators.videos
                                [] t = "Script" -> doc.creators.scripts
                                [] t = "Subtitle" -> doc.creators.subtitles) } :
            t \in ItemTypes }

\* the unknown keys of the descriptors, each with its descriptor
DescriptorExtras(doc) ==
    { [type |-> "Video", id |-> d.name, own |-> UnknownOf(d, VideoFormatFields)] :
        d \in SeqToSet(doc.video_formats) }
    \cup
    { [type |-> "Script", id |-> d.name, own |-> UnknownOf(d, ScriptVariantFields)] :
        d \in SeqToSet(doc.script_variants) }
    \cup
    { [type |-> "Subtitle", id |-> d.name, own |-> UnknownOf(d, SubtitleTrackFields)] :
        d \in SeqToSet(doc.subtitle_tracks) }

\* every object of before that after still has carries the same unknown keys
KeptIn(before, after) ==
    \A x \in before :
        (\E y \in after : y.type = x.type /\ y.id = x.id) => x \in after

Vendor(where) == [x_vendor |-> where]

\* C25: after a successful add, add_creator, remove or rebuild, every
\* unrecognized key of metadata.json, at the top level and inside the
\* creators object, the work-creator records, the creator_info objects and
\* the descriptors, is present with the same value, for every object the
\* operation has not removed.
C25_UnknownKeysPreserved ==
    (pc = "done" /\ op.kind \in Mutating /\ result = "Ok" /\ Opens(pre[path])) =>
        /\ Opens(fs[path])
        /\ LET before == DocOf(pre[path])
               after == DocOf(fs[path])
           IN  /\ UnknownOf(after, FsvMetadataFields) = UnknownOf(before, FsvMetadataFields)
               /\ UnknownOf(after.creators, CreatorsFields)
                      = UnknownOf(before.creators, CreatorsFields)
               /\ KeptIn(WorkExtras(before), WorkExtras(after))
               /\ KeptIn(DescriptorExtras(before), DescriptorExtras(after))
               /\ op.kind # "remove" =>
                      /\ WorkExtras(before) \subseteq WorkExtras(after)
                      /\ DescriptorExtras(before) \subseteq DescriptorExtras(after)

\* a remove has dropped a script family and the container still carries the
\* unknown keys of the objects that remain
C25_Witness ==
    /\ Returned("remove") /\ result = "Ok"
    /\ UnknownOf(DocOf(pre[path]), FsvMetadataFields) = Vendor("top")
    /\ UnknownOf(DocOf(fs[path]), FsvMetadataFields) = Vendor("top")
    /\ UnknownOf(DocOf(fs[path]).creators, CreatorsFields) = Vendor("creators")
    /\ DescriptorExtras(DocOf(fs[path])) # {}
    /\ DescriptorExtras(DocOf(fs[path])) # DescriptorExtras(DocOf(pre[path]))
    /\ \A x \in DescriptorExtras(DocOf(fs[path])) : x.own = Vendor("descriptor")
    /\ \E x \in WorkExtras(DocOf(fs[path])) :
           x.own = Vendor("work") /\ x.info = Vendor("creator_info")

-----------------------------------------------------------------------------
(* C26 *)

\* the work-creator list of a work type
WorksOf(m, type) ==
    CASE type = "Video"    -> m.creators.videos
      [] type = "Script"   -> m.creators.scripts
      [] type = "Subtitle" -> m.creators.subtitles

\* the creator store has a record of the key
Stored(key) == \E r \in db : r.key = key

\* C26: add_creator on a container that opens, with a key the creator store
\* does not have, fails with CreatorInfoNotFound and leaves the container
\* unchanged; with a key it has, it appends exactly one WorkCreatorsMetadata
\* (work name, source URL, the stored record) to the list of the work type
\* and changes no other list, no descriptor and no content entry.
\* (Failures of the environment, a store, read or write error, are left out.)
C26_AddCreator ==
    (/\ Returned("add_creator")
     /\ Opens(pre[path])
     /\ result \notin {"Io", "DbClient", "Zip"})
        => IF ~Stored(op.creator_key)
           THEN result = "CreatorInfoNotFound" /\ fs = pre
           ELSE /\ result = "Ok"
                /\ Opens(fs[path])
                /\ LET before == ManifestOf(pre[path])
                       after == ManifestOf(fs[path])
                       record == (CHOOSE r \in db : r.key = op.creator_key).info
                   IN  /\ \A t \in ItemTypes :
                             /\ WorksOf(after, t) =
                                    IF t = op.work_type
                                    THEN Append(WorksOf(before, t),
                                                [work_name |-> op.work_name,
                                                 source_url |-> op.source_url,
                                                 creator_info |-> record,
                                                 extra |-> <<>>])
                                    ELSE WorksOf(before, t)
                             /\ Descriptors(after, t) = Descriptors(before, t)
                       /\ ContentOf(fs[path]) = ContentOf(pre[path])

\* a script creator has been added to a container that had video and
\* subtitle creators and content
C26_Witness ==
    /\ Returned("add_creator") /\ result = "Ok"
    /\ op.work_type = "Script"
    /\ Len(ManifestOf(fs[path]).creators.scripts) = 1
    /\ ManifestOf(fs[path]).creators.scripts[1].creator_info.name = "alice"
    /\ Len(ManifestOf(pre[path]).creators.videos) = 1
    /\ ContentOf(fs[path]) # <<>>

\* a key the store does not have has been refused
C26_WitnessNotFound ==
    /\ Returned("add_creator") /\ result = "CreatorInfoNotFound"
    /\ op.creator_key = "ghost" /\ Opens(pre[path]) /\ fs = pre

-----------------------------------------------------------------------------
(* C27 *)

\* C27: a create() with a script that succeeds records, as the duration of
\* that script's descriptor, the largest timestamp of its actions, in
\* whatever order they come; a create() with a script that has no actions
\* fails, and no file is left at the container path.  (The failure of the
\* deletion itself, which create() only logs, is left out.)
C27_ScriptDuration ==
    (Returned("create") /\ op.script.some) =>
        LET actions == op.script.v.data.actions
        IN  IF actions = <<>>
            THEN /\ result # "Ok"
                 /\ (~pre[path].exists /\ loc.rollback # "remove_failed")
                        => ~fs[path].exists
            ELSE result = "Ok" =>
                    /\ Opens(fs[path])
                    /\ LET scripts == ManifestOf(fs[path]).script_variants
                       IN  /\ Len(scripts) = 1
                           /\ scripts[1].name = op.script.v.name
                           /\ scripts[1].duration \in SeqToSet(actions)
                           /\ \A i \in 1..Len(actions) : actions[i] <= scripts[1].duration

\* a script whose largest timestamp is neither the first nor the last
\* action has been packed
C27_Witness ==
    /\ Returned("create") /\ result = "Ok" /\ op.script.some
    /\ op.script.v.data.actions = <<10, 30, 20>>
    /\ ManifestOf(fs[path]).script_variants[1].duration = 30

\* a script without actions has been refused and the file deleted
C27_WitnessNoActions ==
    /\ Returned("create") /\ op.script.some
    /\ op.script.v.data.actions = <<>>
    /\ result = "GetDuration" /\ loc.rollback = "removed"
    /\ ~pre[path].exists /\ ~fs[path].exists

-----------------------------------------------------------------------------
(* C28 *)

\* C28: a create() given no video, no script, or neither succeeds, and
\* validate() on the container it has written returns ContentIncomplete, not
\* MetadataInvalid.  (Failures of the environment and of the inputs given,
\* a read, store or parse error, are left out.)
C28_CreateOmittedIsIncomplete ==
    (/\ Returned("create")
     /\ ~pre[path].exists
     /\ ~op.video.some \/ ~op.script.some
     /\ result \notin {"Io", "DbClient", "Zip", "GetDuration", "SerdeJson",
                        "CreatorInfoNotFound"})
        => /\ result = "Ok"
           /\ validate_fsv(fs[path]).ok
           /\ validate_fsv(fs[path]).state.kind = "ContentIncomplete"

-----------------------------------------------------------------------------
(* C29 *)

\* the number of entries of a file that are named metadata.json
ManifestEntries(file) ==
    Cardinality({ i \in 1..Len(file.entries) : file.entries[i].name = MetadataJson })

\* an item file that has the name of the manifest entry is being packed
PacksManifestName ==
    \/ op.kind = "add" /\ op.item.name = MetadataJson
    \/ op.kind = "create" /\ op.video.some /\ op.video.v.name = MetadataJson

\* C29: after a successful create, add, add_creator, remove or rebuild the
\* container is a complete archive with exactly one entry named
\* metadata.json; an add or create of a file that is itself named
\* metadata.json does not succeed, and no file ever has two such entries.
C29_OneManifestEntry ==
    /\ (pc = "done" /\ result = "Ok" /\ op.kind \in Mutating \cup {"create"})
          => /\ fs[path].exists /\ fs[path].final
             /\ ManifestEntries(fs[path]) = 1
    /\ (pc = "done" /\ PacksManifestName) => result # "Ok"
    /\ \A p \in FsPaths : fs[p].exists /\ p # ExtractionPath
          => ManifestEntries(fs[p]) <= 1

\* the add of a subtitle file named metadata.json has been refused by the
\* archive writer and has left the one manifest entry of the container
C29_Witness ==
    /\ Returned("add") /\ op.item.name = MetadataJson
    /\ result = "Zip"
    /\ path = <<"a", Dot, "fsv">>
    /\ fs[path] = pre[path]
    /\ ManifestEntries(fs[path]) = 1
    /\ Len(fs[path].entries) > 1

-----------------------------------------------------------------------------
(* C30 *)

\* no two descriptors of the list have the same name
UniqueNames(list) ==
    \A i \in 1..Len(list), j \in 1..Len(list) : i # j => list[i].name # list[j].name

UniqueInEachCategory(m) == \A t \in ItemTypes : UniqueNames(Descriptors(m, t))

\* C30: after create and any add, add_creator, remove and rebuild, no two
\* descriptors of one category list (video_formats, script_variants,
\* subtitle_tracks) of the container's manifest have the same name: the
\* operations keep the names of each list distinct.
C30_UniqueDescriptorNames ==
    /\ Opens(fs[path]) => UniqueInEachCategory(ManifestOf(fs[path]))
    /\ (pc = "done" /\ result = "Ok" /\ op.kind \in Mutating \cup {"create"})
          => Opens(fs[path])

\* a second video has been added beside the first, and a video whose name
\* the list already has leaves the list as it is
C30_Witness ==
    /\ Returned("add") /\ result = "Ok" /\ op.item_type = "Video"
    /\ DescriptorNames(ManifestOf(fs[path]), "Video") = {V1, V2}
    /\ Len(ManifestOf(fs[path]).video_formats) = 2
    /\ Len(ManifestOf(pre[path]).video_formats) = 1

\* the add of a name the list already has is skipped
C30_WitnessSkipped ==
    /\ Returned("add") /\ result = "Ok" /\ op.item_type = "Video"
    /\ op.item.name = V1
    /\ fs = pre
    /\ Len(ManifestOf(fs[path]).video_formats) = 1

-----------------------------------------------------------------------------
(* C31 *)

\* a call to the creator store is still to come in the running operation:
\* the query of get_creator_info_from_key, or the insert that follows the
\* prompt
StoreCallAhead ==
    \/ pc = "create_video" /\ op.video.some /\ op.video_creator_key.some
    \/ pc \in {"create_video", "create_video_add", "create_script"}
          /\ op.script.some /\ op.script_creator_key.some
    \/ pc = "prompt"

\* C31 (as claimed): in create, add and add_creator every call to the
\* creator store has completed before the operation creates, truncates or
\* writes a file at or for the container path: while a store call is still
\* to come, every file is what it was before the operation.  Fails for
\* create, which creates the container file first.
C31_StoreCallsBeforeFiles ==
    (op.kind \in {"create", "add", "add_creator"} /\ StoreCallAhead)
        => fs = pre

-----------------------------------------------------------------------------
(* C32 *)

\* the entries of the original archive that the new archive takes over
KeptEntries(entries, remove_files) ==
    LET kept(e) == e.name # MetadataJson /\ e.name \notin remove_files
    IN  SelectSeq(entries, kept)

\* the files the running operation hands to rebuild_archive as add_files
AddedEntries ==
    IF op.kind = "add" THEN <<Entry(op.item.name, op.item.data)>> ELSE <<>>

\* the archive the claim describes, from the arguments of rebuild_archive
RebuiltArchive ==
    [exists |-> TRUE, final |-> TRUE,
     entries |-> <<Entry(MetadataJson, ToJson(loc.metadata))>>
                 \o KeptEntries(pre[path].entries, loc.remove_files)
                 \o AddedEntries]

RebuildSteps == {"rb_create", "rb_meta", "rb_copy", "rb_add", "rb_finish"}

\* C32 (as claimed): rebuild_archive writes metadata.json first, then every
\* existing entry other than metadata.json and the names to remove, in the
\* original order and with the original bytes, then each added file; the
\* new archive is finalized and the handle on the original released before
\* the rename, and until the rename the container is the original.  Fails
\* for a container path whose extension is "tmp".
C32_RebuildOrder ==
    /\ (op.kind \in Mutating /\ pc \in RebuildSteps)
          => fs[path] = pre[path] /\ loc.handle = "open"
    /\ (op.kind \in Mutating /\ pc = "rb_rename")
          => /\ fs[loc.temp_path] = RebuiltArchive
             /\ loc.handle = "released"
             /\ fs[path] = pre[path]
    /\ (op.kind \in Mutating /\ pc = "done" /\ result = "Ok" /\ loc.handle # "none")
          => /\ fs[path] = RebuiltArchive
             /\ loc.handle = "released"

-----------------------------------------------------------------------------
(* C33 *)

\* C33 (as claimed): whatever the extension of the container path, the
\* temporary file of rebuild_archive is at a path other than the container
\* path, so that no byte of the original is written or truncated before
\* the final rename.  Fails for a container path whose extension is "tmp":
\* with_extension("tmp") gives the container path back.
C33_TempPathIsSibling ==
    (op.kind \in Mutating /\ pc \in RebuildSteps \cup {"rb_rename"})
        => /\ TempPath(path) # path
           /\ loc.temp_path \in {<<>>, TempPath(path)}
           /\ fs[path] = pre[path]

-----------------------------------------------------------------------------
(* C34 *)

\* the work creators of a list whose work name is not the given one
OtherWorks(list, name) ==
    LET other(w) == w.work_name # name
    IN  SelectSeq(list, other)

\* C34: a successful remove(Creator, name) leaves a container whose three
\* creator lists (videos, scripts, subtitles) are those of before without
\* every attribution whose work_name is name, and whose descriptors and
\* physical entries are those of before: no descriptor and no entry goes.
C34_RemoveCreator ==
    (Returned("remove") /\ op.entry_type = "Creator" /\ result = "Ok")
        => /\ Opens(pre[path]) /\ Opens(fs[path])
           /\ \A t \in ItemTypes :
                /\ WorksOf(ManifestOf(fs[path]), t)
                      = OtherWorks(WorksOf(ManifestOf(pre[path]), t), op.entry_id)
                /\ Descriptors(ManifestOf(fs[path]), t)
                      = Descriptors(ManifestOf(pre[path]), t)
           /\ NamesOf(ContentOf(fs[path])) = NamesOf(ContentOf(pre[path]))

\* the work a.mp4 was attributed in all three lists, and is in none now;
\* the descriptors and the entries are still there
C34_Witness ==
    /\ Returned("remove") /\ op.entry_type = "Creator" /\ result = "Ok"
    /\ op.entry_id = V1
    /\ \A t \in ItemTypes :
          /\ Len(WorksOf(ManifestOf(pre[path]), t)) = 1
          /\ WorksOf(ManifestOf(fs[path]), t) = <<>>
    /\ V1 \in DescriptorNames(ManifestOf(fs[path]), "Video")
    /\ Len(ContentOf(fs[path])) >= 4

\* the attributions of another work stay, in every list
C34_WitnessOthersStay ==
    /\ Returned("remove") /\ op.entry_type = "Creator" /\ result = "Ok"
    /\ op.entry_id = S2
    /\ \A t \in ItemTypes :
          /\ Len(WorksOf(ManifestOf(pre[path]), t)) = 2
          /\ Len(WorksOf(ManifestOf(fs[path]), t)) = 1
          /\ WorksOf(ManifestOf(fs[path]), t)[1].work_name = V1

-----------------------------------------------------------------------------
(* C35 *)

\* the identifier names one file: the text after its first '.' is not
\* exactly "funscript"
IsSpecificScriptId(id) == FirstDot(id, 1) > 0 /\ ~IsBaseScriptId(id)

\* the elements of a list of descriptors or entries not named name
NotNamed(list, name) ==
    LET other(x) == x.name # name
    IN  SelectSeq(list, other)

\* C35: a successful remove(Script, id) with an id that names one specific
\* file, such as scene.roll.funscript, removes the script descriptor and the
\* physical entry of exactly that name and no other: the base script and
\* the other axis files keep their descriptor and their entry.
C35_RemoveOneAxis ==
    (/\ Returned("remove") /\ result = "Ok"
     /\ op.entry_type = "Script" /\ IsSpecificScriptId(op.entry_id))
        => /\ Opens(pre[path]) /\ Opens(fs[path])
           /\ ManifestOf(fs[path]).script_variants
                 = NotNamed(ManifestOf(pre[path]).script_variants, op.entry_id)
           /\ NamesOf(ContentOf(fs[path]))
                 = NamesOf(NotNamed(ContentOf(pre[path]), op.entry_id))

\* scene.roll.funscript is gone; scene.funscript and scene.twist.funscript
\* are still described and stored
C35_Witness ==
    /\ Returned("remove") /\ result = "Ok"
    /\ op.entry_type = "Script" /\ op.entry_id = S1Roll
    /\ {S1, S1Roll, S1Twist} \subseteq DescriptorNames(ManifestOf(pre[path]), "Script")
    /\ DescriptorNames(ManifestOf(fs[path]), "Script") = {S1, S1Twist}
    /\ {S1, S1Twist} \subseteq EntryNames(fs[path].entries)
    /\ S1Roll \notin EntryNames(fs[path].entries)

\* my.scene.funscript is such an identifier too: scene.roll.funscript stays
C35_WitnessDottedStem ==
    /\ Returned("remove") /\ result = "Ok"
    /\ op.entry_type = "Script" /\ op.entry_id = S2
    /\ DescriptorNames(ManifestOf(fs[path]), "Script") = {S1Roll}
    /\ S1Roll \in EntryNames(fs[path].entries)

-----------------------------------------------------------------------------
(* C36 *)

\* an operation has been started and has not returned
Running == pc \notin {"idle", "done"}

\* C36 (as claimed): every operation that has started returns, with success
\* or an error, whatever standard input holds.  Fails when the name prompt
\* of get_creator_info_from_user meets the end of input.
C36_EveryOperationReturns == Running ~> (pc = "done")

\* the name prompt at the end of standard input
AtEndOfInput == pc \in {"prompt", "prompt_empty"} /\ loc.stdin.lines = <<>>

\* every other run of create returns
C36_ReturnsUnlessEndOfInput == Running ~> (pc = "done" \/ AtEndOfInput)

-----------------------------------------------------------------------------
(* C37 *)

\* every descriptor of every category names an entry of the archive
DescriptorsHaveEntries(file) ==
    AllDescriptorNames(ManifestOf(file)) \subseteq EntryNames(file.entries)

\* info reports every descriptor as present
InfoAllPresent(file) ==
    LET fsv_info == FsvInfo(ManifestOf(file), file.entries)
    IN  ~AnyMissing(fsv_info.videos \o fsv_info.scripts \o fsv_info.subtitles)

\* validate reports a descriptor whose file is missing
ReportsMissingItemFile(file) ==
    /\ validate_fsv(file).ok
    /\ validate_fsv(file).state.kind = "ContentIncomplete"
    /\ validate_fsv(file).state.reason = "MissingItemFile"

\* C37 (as claimed): after create with a video and a script and any
\* sequence of add, remove and rebuild, every descriptor of every category
\* names an entry that is in the archive: info reports every descriptor as
\* present and validate does not report MissingItemFile.  Fails when the
\* removal of a script family takes the entry of another category's
\* descriptor with it.
C37_DescriptorsNameEntries ==
    Opens(fs[path])
        => /\ DescriptorsHaveEntries(fs[path])
           /\ InfoAllPresent(fs[path])
           /\ ~ReportsMissingItemFile(fs[path])

\* the operations keep the property as long as no script family is removed
C37_HoldsWithoutFamilyRemoval ==
    (Opens(fs[path]) /\ S1 \in DescriptorNames(ManifestOf(fs[path]), "Script"))
        => /\ DescriptorsHaveEntries(fs[path])
           /\ InfoAllPresent(fs[path])
           /\ ~ReportsMissingItemFile(fs[path])

-----------------------------------------------------------------------------
(* C38 *)

\* C38 (as claimed): a successful extract of a container whose named videos
\* and scripts are all present and readable leaves, for every pairing of a
\* video and a script, both files of the pairing in the output directory
\* with the pairing's own bytes: no file has been overwritten with the
\* payload of another pairing.  Fails when two pairings have the same
\* output name.
C38_NoPairingOverwritten ==
    (/\ Returned("extract") /\ result = "Ok" /\ Opens(pre[path])
     /\ AllReadable(ManifestOf(pre[path]).video_formats, pre[path].entries)
     /\ AllReadable(ManifestOf(pre[path]).script_variants, pre[path].entries))
        => \A v \in NonBlank(ManifestOf(pre[path]).video_formats),
              s \in NonBlank(ManifestOf(pre[path]).script_variants) :
                /\ OutputPair(v, s, pre[path].entries).video \in fs[ExtractionPath].files
                /\ OutputPair(v, s, pre[path].entries).script \in fs[ExtractionPath].files

-----------------------------------------------------------------------------
(* C39 *)

\* the archive one run of rebuild is to leave: the manifest, serialized from
\* its content, then the content entries as they are
Rebuilt(file) ==
    [exists |-> TRUE, final |-> TRUE,
     entries |-> <<Entry(MetadataJson, ToJson(ManifestOf(file)))>> \o ContentOf(file)]

\* the entries of before that a descriptor names are there with their bytes
DescribedEntriesKept(before, after) ==
    \A n \in AllDescriptorNames(ManifestOf(before)) \cap EntryNames(before.entries) :
        /\ n \in EntryNames(after.entries)
        /\ ByName(after.entries, n).data = ByName(before.entries, n).data

\* C39 (as claimed): a successful rebuild(path) keeps the content of the
\* manifest and the name and bytes of every entry a descriptor names, and
\* leaves an archive that a second rebuild reproduces: the same manifest
\* and the same list of entries.  Fails for a container path whose
\* extension is "tmp", where the entries are not copied from the original.
C39_RebuildKeepsAndRepeats ==
    (Returned("rebuild") /\ result = "Ok")
        => /\ Opens(fs[path])
           /\ ManifestOf(fs[path]) = ManifestOf(pre[path])
           /\ DescribedEntriesKept(pre[path], fs[path])
           /\ Rebuilt(fs[path]) = fs[path]

\* a rebuild of an archive that a rebuild has left changes nothing
C39_SecondRunChangesNothing ==
    (Returned("rebuild") /\ result = "Ok" /\ Opens(pre[path])
     /\ pre[path] = Rebuilt(pre[path]))
        => fs[path] = pre[path]

-----------------------------------------------------------------------------
(* C40 *)

\* the content entries that do not carry one of the names
EntriesBut(file, names) ==
    LET other(e) == e.name \notin names
    IN  SelectSeq(ContentOf(file), other)

\* everything of the manifest but the descriptor list of the category
ManifestFrame(m, type) ==
    [format_version |-> m.format_version, title |-> m.title, tags |-> m.tags,
     creators |-> m.creators,
     descriptors |-> [t \in ItemTypes \ {type} |-> Descriptors(m, t)]]

\* a successful remove of a Video, Script or Subtitle has returned
RemovedItem ==
    /\ Returned("remove") /\ result = "Ok"
    /\ op.entry_type \in ItemTypes

====
